---- MODULE Spec2Model ----
(***************************************************************************)
(* A model of gofutura (src/main.go): the batched range reader             *)
(* collectRanges with its close/backoff/reopen/retry recovery, the         *)
(* single-field write dispatcher WriteSingleRegister, the bulk update of   *)
(* handleWriteHolding, and the poll loop and HTTP handlers that share one  *)
(* Modbus client.                                                          *)
(*                                                                         *)
(* uint16 arithmetic is kept at its width (W16).  float64 values are kept  *)
(* as exact decimals in hundredths together with the IEEE-754 outcome of   *)
(* the one inexact operation the code performs on them (division by 0.1).  *)
(***************************************************************************)
EXTENDS Integers, Sequences, FiniteSets, TLC

(***************************************************************************)
(* Bounds of the model.                                                    *)
(***************************************************************************)
\* collectRanges is explored for ranges starting at 0..MaxStart ...
MaxStart == 1
\* ... holding 1..MaxLen registers ...
MaxLen == 3
\* ... and for block sizes 1..MaxB.
MaxB == 2
\* Transport faults (a failing ReadRegisters, Open or WriteRegister) injected in one run.
MaxFaults == 2
\* The range tables hold their first MaxRanges ranges where one task runs
\* alone, and their first MaxSharedRanges ranges where two tasks run.
MaxRanges == 3
MaxSharedRanges == 1
\* The poll loop runs MaxCycles cycles and a connection carries MaxRequests requests.
MaxCycles == 1
MaxRequests == 1

(***************************************************************************)
(* Program constants.                                                      *)
(***************************************************************************)
\* uint16: the type of addresses, counters and register values.
U16 == 65536

W16(x) == x % U16

\* Register addresses and instance counts.
AlfaInstances == 8
AddrFactDeviceID == 0
AddrFactSerialNum == 1
AddrFutTempAmbient == 30
AddrExtSensBase == 300
ExtSensInstances == 8
AddrHoldingFuncVentilation == 0
AddrHoldingFuncBoostTm == 1
AddrHoldingFuncCirculationTm == 2
AddrHoldingFuncOverpressureTm == 3
AddrHoldingFuncNightTm == 4
AddrHoldingFuncPartyTm == 5
AddrHoldingFuncAwayBegin == 6
AddrHoldingFuncAwayEnd == 8
AddrHoldingCfgTempSet == 10
AddrHoldingCfgHumiSet == 11
AddrHoldingFuncTimeProg == 12
AddrHoldingFuncAntiradon == 13
AddrHoldingCfgBypassEnable == 14
AddrHoldingCfgHeatingEnable == 15
AddrHoldingCfgCoolingEnable == 16
AddrHoldingCfgComfortEnable == 17
AddrHoldingVzvCBPriorityControl == 20
AddrHoldingVzvKitchenhoodNormallyOpen == 21
AddrHoldingVzvBoostVolumePerRun == 22
AddrHoldingVzvKitchenhoodNormallyOpenVolume == 23
AddrHoldingUITempCorrBase == 100
HoldingUIInstances == 3
AddrHoldingExtSensTempCorrBase == 115
HoldingExtSensInstances == 8
AddrHoldingAlfaTempCorrBase == 160
AddrHoldingAlfaNTCTempCorrBase == 162
AddrHoldingExtBtnBase == 400
HoldingExtBtnInstances == 8
AddrHoldingAccessCode == 900
AddrHoldingUserPassword == 920
AddrHoldingPasswordTimeout == 922

\* flag.Int("max-block-size", 125, ...)
flagMaxBlockSize == 125
flagInputMaxAddr == 255
flagHoldingMaxAddr == 1024

Tasks == {"c", "poll", "h1", "h2"}

NoRanges == << >>

(***************************************************************************)
(* The device: one 16-bit register per address and kind.  Input registers  *)
(* never change; holding registers change by WriteRegister and are held in *)
(* devH for the addresses that were written, the others keeping their      *)
(* initial contents.                                                       *)
(***************************************************************************)
VARIABLES
    devH,                 \* holding registers written so far: address -> value
    conn,                 \* the shared client connection: "open" or "closed"
    faults,               \* transport faults injected so far
    runtimeMaxBlockSize,  \* the package variable of that name
    args,                 \* the options of the command line: name -> value
    pollInterval,         \* the period of the poll ticker in seconds, 0 before it is set
    pc,                   \* per task: where it stands
    cr,                   \* per task: the frame of its collectRanges call
    rdlog,                \* per task: the requests of its current collectRanges call
    hf,                   \* per task: the locals of its HTTP handler or poll cycle
    wrlog,                \* per task: the WriteRegister calls of its current request
    served,               \* per task: the requests or poll cycles it has begun
    inputRanges,          \* the package variable of that name
    holdingRanges         \* the package variable of that name

globals == <<runtimeMaxBlockSize, args, pollInterval, inputRanges, holdingRanges>>

vars == <<devH, conn, faults, globals, pc, cr, rdlog, hf, wrlog, served>>

InitReg(kind, a) == IF kind = "input" THEN (3 * a + 1) % U16 ELSE (7 * a + 11) % U16

Reg(kind, a) ==
    IF kind = "holding" /\ a \in DOMAIN devH THEN devH[a] ELSE InitReg(kind, a)

(***************************************************************************)
(* collectRanges: the block arithmetic, in uint16.                         *)
(***************************************************************************)
TotalToRead(r) == W16(W16(r[2] - r[1]) + 1)

BatchStart(r, i) == W16(r[1] + i)

BatchQuantity(r, i, maxBlockSize) ==
    IF W16(i + maxBlockSize) > TotalToRead(r)
    THEN W16(TotalToRead(r) - i)
    ELSE maxBlockSize

\* The addresses under which the registers of a reply are stored:
\* addr := batchStart + uint16(idx).
BlockAddrs(batchStart, batchQuantity) ==
    IF batchStart + batchQuantity <= U16
    THEN batchStart .. (batchStart + batchQuantity - 1)
    ELSE {W16(batchStart + idx) : idx \in 0 .. (batchQuantity - 1)}

\* for idx, val := range regs { out[batchStart+uint16(idx)] = val }
InsertRegs(out, kind, batchStart, batchQuantity) ==
    LET blk == BlockAddrs(batchStart, batchQuantity)
    IN  [a \in (DOMAIN out) \cup blk |->
            IF a \in blk THEN Reg(kind, a) ELSE out[a]]

\* The first range at or after index ri whose block loop runs at all.
RECURSIVE NextRange(_, _)
NextRange(ranges, ri) ==
    IF ri > Len(ranges) THEN ri
    ELSE IF 0 < TotalToRead(ranges[ri]) THEN ri
    ELSE NextRange(ranges, ri + 1)

\* The loop position after the block at (ri, i): i += maxBlockSize, and the
\* next range when i < totalToRead no longer holds.
AfterBlock(f) ==
    LET i2 == W16(f.i + f.maxBlockSize)
    IN  IF i2 < TotalToRead(f.ranges[f.ri])
        THEN [ri |-> f.ri, i |-> i2]
        ELSE [ri |-> NextRange(f.ranges, f.ri + 1), i |-> 0]

\* The request of the first attempt of the block at the frame's position.
FirstRequest(f) ==
    [start |-> BatchStart(f.ranges[f.ri], f.i),
     qty   |-> BatchQuantity(f.ranges[f.ri], f.i, f.maxBlockSize),
     kind  |-> f.regType]

\* A retry that asks for a whole block whatever is left of the range.
RetryRequestFullBlock(f) ==
    [start |-> BatchStart(f.ranges[f.ri], f.i),
     qty   |-> f.maxBlockSize,
     kind  |-> f.regType]

\* The request of the retry: the same batchStart, batchQuantity and regType.
RetryRequest(f) ==
    [start |-> BatchStart(f.ranges[f.ri], f.i),
     qty   |-> BatchQuantity(f.ranges[f.ri], f.i, f.maxBlockSize),
     kind  |-> f.regType]

Frame(regType, ranges, maxBlockSize, ret) ==
    [regType |-> regType, ranges |-> ranges, maxBlockSize |-> maxBlockSize,
     ri |-> 1, i |-> 0, out |-> << >>, ret |-> ret]

IdleFrame == Frame("holding", NoRanges, 0, "idle")

LogEntry(f, op, req, ok) ==
    [ri |-> f.ri, i |-> f.i, op |-> op, start |-> req.start, qty |-> req.qty,
     kind |-> req.kind, ok |-> ok]

\* The frame moved past its current block; the call returns when no block is left.
Moved(f) == [f EXCEPT !.ri = AfterBlock(f).ri, !.i = AfterBlock(f).i]

PcAfter(f) == IF Moved(f).ri > Len(f.ranges) THEN f.ret ELSE "cr_read"

(***************************************************************************)
(* collectRanges: the steps of task t.                                     *)
(***************************************************************************)
\* out := map[uint16]uint16{} and the loop heads up to the first block.
CollectEnter(t) ==
    /\ pc[t] = "cr_call"
    /\ LET ri0 == NextRange(cr[t].ranges, 1)
       IN  /\ cr' = [cr EXCEPT ![t].ri = ri0, ![t].i = 0, ![t].out = << >>]
           /\ pc' = [pc EXCEPT ![t] =
                        IF ri0 > Len(cr[t].ranges) THEN cr[t].ret ELSE "cr_read"]
    /\ rdlog' = [rdlog EXCEPT ![t] = {}]
    /\ UNCHANGED <<hf, wrlog, devH, conn, faults, globals, served>>

\* regs, err := client.ReadRegisters(...) with err == nil, and the insertion.
ReadOk(t) ==
    /\ pc[t] = "cr_read"
    /\ conn = "open"
    /\ LET f == cr[t]
           q == FirstRequest(f)
       IN  /\ cr' = [cr EXCEPT ![t] =
                        [Moved(f) EXCEPT !.out = InsertRegs(f.out, q.kind, q.start, q.qty)]]
           /\ pc' = [pc EXCEPT ![t] = PcAfter(f)]
           /\ rdlog' = [rdlog EXCEPT ![t] = @ \cup {LogEntry(f, "read", q, TRUE)}]
    /\ UNCHANGED <<hf, wrlog, devH, conn, faults, globals, served>>

\* The first attempt fails: a transport fault, or the connection is closed.
ReadFail(t) ==
    /\ pc[t] = "cr_read"
    /\ IF conn = "open"
       THEN faults < MaxFaults /\ faults' = faults + 1
       ELSE faults' = faults
    /\ pc' = [pc EXCEPT ![t] = "cr_close"]
    /\ rdlog' = [rdlog EXCEPT ![t] =
                    @ \cup {LogEntry(cr[t], "read", FirstRequest(cr[t]), FALSE)}]
    /\ UNCHANGED <<hf, wrlog, devH, conn, globals, served, cr>>

\* _ = client.Close()
CloseConn(t) ==
    /\ pc[t] = "cr_close"
    /\ conn' = "closed"
    /\ pc' = [pc EXCEPT ![t] = "cr_sleep"]
    /\ UNCHANGED <<hf, wrlog, devH, faults, globals, served, cr, rdlog>>

\* time.Sleep(500 * time.Millisecond)
Backoff(t) ==
    /\ pc[t] = "cr_sleep"
    /\ pc' = [pc EXCEPT ![t] = "cr_open"]
    /\ UNCHANGED <<hf, wrlog, devH, conn, faults, globals, served, cr, rdlog>>

\* client.Open() succeeds.
OpenOk(t) ==
    /\ pc[t] = "cr_open"
    /\ conn' = "open"
    /\ pc' = [pc EXCEPT ![t] = "cr_retry"]
    /\ rdlog' = [rdlog EXCEPT ![t] =
                    @ \cup {LogEntry(cr[t], "open", FirstRequest(cr[t]), TRUE)}]
    /\ UNCHANGED <<hf, wrlog, devH, faults, globals, served, cr>>

\* client.Open() fails: "Re-open failed", continue with the next block.
OpenFail(t) ==
    /\ pc[t] = "cr_open"
    /\ faults < MaxFaults
    /\ faults' = faults + 1
    /\ cr' = [cr EXCEPT ![t] = Moved(cr[t])]
    /\ pc' = [pc EXCEPT ![t] = PcAfter(cr[t])]
    /\ rdlog' = [rdlog EXCEPT ![t] =
                    @ \cup {LogEntry(cr[t], "open", FirstRequest(cr[t]), FALSE)}]
    /\ UNCHANGED <<hf, wrlog, devH, conn, globals, served>>

\* The retry succeeds, and the insertion.
RetryOk(t) ==
    /\ pc[t] = "cr_retry"
    /\ conn = "open"
    /\ LET f == cr[t]
           q == RetryRequest(f)
       IN  /\ cr' = [cr EXCEPT ![t] =
                        [Moved(f) EXCEPT !.out = InsertRegs(f.out, q.kind, q.start, q.qty)]]
           /\ pc' = [pc EXCEPT ![t] = PcAfter(f)]
           /\ rdlog' = [rdlog EXCEPT ![t] = @ \cup {LogEntry(f, "retry", q, TRUE)}]
    /\ UNCHANGED <<hf, wrlog, devH, conn, faults, globals, served>>

\* The retry fails: "ReadRegisters retry failed", continue with the next block.
RetryFail(t) ==
    /\ pc[t] = "cr_retry"
    /\ IF conn = "open"
       THEN faults < MaxFaults /\ faults' = faults + 1
       ELSE faults' = faults
    /\ cr' = [cr EXCEPT ![t] = Moved(cr[t])]
    /\ pc' = [pc EXCEPT ![t] = PcAfter(cr[t])]
    /\ rdlog' = [rdlog EXCEPT ![t] =
                    @ \cup {LogEntry(cr[t], "retry", RetryRequest(cr[t]), FALSE)}]
    /\ UNCHANGED <<hf, wrlog, devH, conn, globals, served>>

CollectStep(t) ==
    \/ CollectEnter(t)
    \/ ReadOk(t)
    \/ ReadFail(t)
    \/ CloseConn(t)
    \/ Backoff(t)
    \/ OpenOk(t)
    \/ OpenFail(t)
    \/ RetryOk(t)
    \/ RetryFail(t)

(***************************************************************************)
(* float64.  A value is a decimal in hundredths together with the way it   *)
(* came about: "lit", the double nearest to a decimal literal of the JSON  *)
(* body, or "mul", the product float64(v) * 0.1 of the decoders.  Integers *)
(* are exact in both.                                                      *)
(***************************************************************************)
Lit(h) == [h |-> h, src |-> "lit"]

Abs(x) == IF x < 0 THEN -x ELSE x

Sign(x) == IF x < 0 THEN -1 ELSE 1

\* Conversion of a quotient to an integer type discards the fraction.
TruncDiv(a, b) == Sign(a) * (Abs(a) \div b)

\* The decimal literals the requests of this model carry, each with the
\* integer part of the IEEE-754 double quotient literal / 0.1.
LitTable ==
    {[h |-> -3276850, q |-> -327685],
     [h |-> -327690, q |-> -32769],
     [h |-> -327685, q |-> -32768],
     [h |-> -327680, q |-> -32768],
     [h |-> -100, q |-> -10],
     [h |-> -10, q |-> -1],
     [h |-> 0, q |-> 0],
     [h |-> 30, q |-> 2],
     [h |-> 40, q |-> 4],
     [h |-> 100, q |-> 10],
     [h |-> 300, q |-> 30],
     [h |-> 430, q |-> 42],
     [h |-> 2150, q |-> 215],
     [h |-> 2157, q |-> 215],
     [h |-> 655350, q |-> 65535],
     [h |-> 655356, q |-> 65535],
     [h |-> 655360, q |-> 65536],
     [h |-> 6553560, q |-> 655356],
     [h |-> 7000000, q |-> 700000],
     [h |-> 99999900, q |-> 9999990]}

\* The magnitudes v of a 16-bit register for which the double quotient
\* (float64(v) * 0.1) / 0.1 lies just below v: runs of step 5.
MulShortRuns ==
    {<<43, 43>>, <<81, 91>>, <<162, 187>>, <<324, 379>>, <<643, 763>>,
     <<1281, 1531>>, <<2562, 3067>>, <<5124, 6139>>, <<10243, 12283>>,
     <<20481, 24571>>, <<40962, 49147>>}

MulShort(m) ==
    \E run \in MulShortRuns : run[1] <= m /\ m <= run[2] /\ (m - run[1]) % 5 = 0

\* float64(v) * scale of i16f and u16f; scale is held in hundredths.
ScaleMul(v, scale) ==
    IF scale = 100 THEN Lit(100 * v) ELSE [h |-> 10 * v, src |-> "mul"]

\* The integer part of value / scale as the double division yields it.
QuotInt(value, scale) ==
    IF scale = 100 THEN TruncDiv(value.h, 100)
    ELSE IF value.src = "lit"
         THEN (CHOOSE x \in LitTable : x.h = value.h).q
         ELSE LET v == value.h \div 10
              IN  IF MulShort(Abs(v)) THEN v - Sign(v) ELSE v

\* What a conversion of a float64 to a narrower integer type yields when the
\* integer part does not fit: the low bits, or the nearest bound of the type.
FloatConvs == {"wrap", "saturate"}

\* uint16(int16(x / 0.1))
I16Bits(q, conv) ==
    IF -32768 <= q /\ q <= 32767 THEN W16(q)
    ELSE IF conv = "wrap" THEN W16(q)
    ELSE IF q < 0 THEN 32768 ELSE 32767

\* uint16(x)
U16Bits(q, conv) ==
    IF 0 <= q /\ q < U16 THEN q
    ELSE IF conv = "wrap" THEN W16(q)
    ELSE IF q < 0 THEN 0 ELSE U16 - 1

(***************************************************************************)
(* WriteableFields and WriteSingleRegister.                                *)
(***************************************************************************)
WriteableFieldRows ==
    {[name |-> "FuncVentilation", Addr |-> AddrHoldingFuncVentilation, Scale |-> 100, RegCount |-> 1],
     [name |-> "FuncBoostTm", Addr |-> AddrHoldingFuncBoostTm, Scale |-> 100, RegCount |-> 1],
     [name |-> "FuncCirculationTm", Addr |-> AddrHoldingFuncCirculationTm, Scale |-> 100, RegCount |-> 1],
     [name |-> "FuncOverpressureTm", Addr |-> AddrHoldingFuncOverpressureTm, Scale |-> 100, RegCount |-> 1],
     [name |-> "FuncNightTm", Addr |-> AddrHoldingFuncNightTm, Scale |-> 100, RegCount |-> 1],
     [name |-> "FuncPartyTm", Addr |-> AddrHoldingFuncPartyTm, Scale |-> 100, RegCount |-> 1],
     [name |-> "CfgTempSet", Addr |-> AddrHoldingCfgTempSet, Scale |-> 10, RegCount |-> 1],
     [name |-> "CfgHumiSet", Addr |-> AddrHoldingCfgHumiSet, Scale |-> 10, RegCount |-> 1],
     [name |-> "FuncTimeProg", Addr |-> AddrHoldingFuncTimeProg, Scale |-> 100, RegCount |-> 1],
     [name |-> "FuncAntiradon", Addr |-> AddrHoldingFuncAntiradon, Scale |-> 100, RegCount |-> 1],
     [name |-> "CfgBypassEnable", Addr |-> AddrHoldingCfgBypassEnable, Scale |-> 100, RegCount |-> 1],
     [name |-> "CfgHeatingEnable", Addr |-> AddrHoldingCfgHeatingEnable, Scale |-> 100, RegCount |-> 1],
     [name |-> "CfgCoolingEnable", Addr |-> AddrHoldingCfgCoolingEnable, Scale |-> 100, RegCount |-> 1],
     [name |-> "CfgComfortEnable", Addr |-> AddrHoldingCfgComfortEnable, Scale |-> 100, RegCount |-> 1],
     [name |-> "VzvCBPriorityControl", Addr |-> AddrHoldingVzvCBPriorityControl, Scale |-> 100, RegCount |-> 1],
     [name |-> "VzvKitchenhoodNormallyOpen", Addr |-> AddrHoldingVzvKitchenhoodNormallyOpen, Scale |-> 100, RegCount |-> 1],
     [name |-> "VzvBoostVolumePerRun", Addr |-> AddrHoldingVzvBoostVolumePerRun, Scale |-> 100, RegCount |-> 1],
     [name |-> "VzvKitchenhoodNormallyOpenVolume", Addr |-> AddrHoldingVzvKitchenhoodNormallyOpenVolume, Scale |-> 100, RegCount |-> 1],
     [name |-> "ExtSensTempCorr1", Addr |-> AddrHoldingExtSensTempCorrBase + 0, Scale |-> 10, RegCount |-> 1],
     [name |-> "ExtSensTempCorr2", Addr |-> AddrHoldingExtSensTempCorrBase + 5, Scale |-> 10, RegCount |-> 1],
     [name |-> "ExtSensTempCorr3", Addr |-> AddrHoldingExtSensTempCorrBase + 10, Scale |-> 10, RegCount |-> 1],
     [name |-> "ExtSensTempCorr4", Addr |-> AddrHoldingExtSensTempCorrBase + 15, Scale |-> 10, RegCount |-> 1],
     [name |-> "ExtSensTempCorr5", Addr |-> AddrHoldingExtSensTempCorrBase + 20, Scale |-> 10, RegCount |-> 1],
     [name |-> "ExtSensTempCorr6", Addr |-> AddrHoldingExtSensTempCorrBase + 25, Scale |-> 10, RegCount |-> 1],
     [name |-> "ExtSensTempCorr7", Addr |-> AddrHoldingExtSensTempCorrBase + 30, Scale |-> 10, RegCount |-> 1],
     [name |-> "ExtSensTempCorr8", Addr |-> AddrHoldingExtSensTempCorrBase + 35, Scale |-> 10, RegCount |-> 1],
     [name |-> "ExtSensPresent1", Addr |-> AddrExtSensBase + 0, Scale |-> 100, RegCount |-> 1],
     [name |-> "ExtSensInvalidate1", Addr |-> AddrExtSensBase + 1, Scale |-> 100, RegCount |-> 1],
     [name |-> "ExtSensPresent2", Addr |-> AddrExtSensBase + 10, Scale |-> 100, RegCount |-> 1],
     [name |-> "ExtSensInvalidate2", Addr |-> AddrExtSensBase + 11, Scale |-> 100, RegCount |-> 1],
     [name |-> "ExtSensPresent3", Addr |-> AddrExtSensBase + 20, Scale |-> 100, RegCount |-> 1],
     [name |-> "ExtSensInvalidate3", Addr |-> AddrExtSensBase + 21, Scale |-> 100, RegCount |-> 1],
     [name |-> "ExtSensPresent4", Addr |-> AddrExtSensBase + 30, Scale |-> 100, RegCount |-> 1],
     [name |-> "ExtSensInvalidate4", Addr |-> AddrExtSensBase + 31, Scale |-> 100, RegCount |-> 1],
     [name |-> "ExtSensPresent5", Addr |-> AddrExtSensBase + 40, Scale |-> 100, RegCount |-> 1],
     [name |-> "ExtSensInvalidate5", Addr |-> AddrExtSensBase + 41, Scale |-> 100, RegCount |-> 1],
     [name |-> "ExtSensPresent6", Addr |-> AddrExtSensBase + 50, Scale |-> 100, RegCount |-> 1],
     [name |-> "ExtSensInvalidate6", Addr |-> AddrExtSensBase + 51, Scale |-> 100, RegCount |-> 1],
     [name |-> "ExtSensPresent7", Addr |-> AddrExtSensBase + 60, Scale |-> 100, RegCount |-> 1],
     [name |-> "ExtSensInvalidate7", Addr |-> AddrExtSensBase + 61, Scale |-> 100, RegCount |-> 1],
     [name |-> "ExtSensPresent8", Addr |-> AddrExtSensBase + 70, Scale |-> 100, RegCount |-> 1],
     [name |-> "ExtSensInvalidate8", Addr |-> AddrExtSensBase + 71, Scale |-> 100, RegCount |-> 1],
     [name |-> "ExtSensTemp1", Addr |-> AddrExtSensBase + 2, Scale |-> 10, RegCount |-> 1],
     [name |-> "ExtSensRH1", Addr |-> AddrExtSensBase + 3, Scale |-> 100, RegCount |-> 1],
     [name |-> "ExtSensCo21", Addr |-> AddrExtSensBase + 4, Scale |-> 100, RegCount |-> 1],
     [name |-> "ExtSensTFloor1", Addr |-> AddrExtSensBase + 5, Scale |-> 10, RegCount |-> 1],
     [name |-> "ExtSensTemp2", Addr |-> AddrExtSensBase + 12, Scale |-> 10, RegCount |-> 1],
     [name |-> "ExtSensRH2", Addr |-> AddrExtSensBase + 13, Scale |-> 100, RegCount |-> 1],
     [name |-> "ExtSensCo22", Addr |-> AddrExtSensBase + 14, Scale |-> 100, RegCount |-> 1],
     [name |-> "ExtSensTFloor2", Addr |-> AddrExtSensBase + 15, Scale |-> 10, RegCount |-> 1],
     [name |-> "ExtSensTemp3", Addr |-> AddrExtSensBase + 22, Scale |-> 10, RegCount |-> 1],
     [name |-> "ExtSensRH3", Addr |-> AddrExtSensBase + 23, Scale |-> 100, RegCount |-> 1],
     [name |-> "ExtSensCo23", Addr |-> AddrExtSensBase + 24, Scale |-> 100, RegCount |-> 1],
     [name |-> "ExtSensTFloor3", Addr |-> AddrExtSensBase + 25, Scale |-> 10, RegCount |-> 1],
     [name |-> "ExtSensTemp4", Addr |-> AddrExtSensBase + 32, Scale |-> 10, RegCount |-> 1],
     [name |-> "ExtSensRH4", Addr |-> AddrExtSensBase + 33, Scale |-> 100, RegCount |-> 1],
     [name |-> "ExtSensCo24", Addr |-> AddrExtSensBase + 34, Scale |-> 100, RegCount |-> 1],
     [name |-> "ExtSensTFloor4", Addr |-> AddrExtSensBase + 35, Scale |-> 10, RegCount |-> 1],
     [name |-> "ExtSensTemp5", Addr |-> AddrExtSensBase + 42, Scale |-> 10, RegCount |-> 1],
     [name |-> "ExtSensRH5", Addr |-> AddrExtSensBase + 43, Scale |-> 100, RegCount |-> 1],
     [name |-> "ExtSensCo25", Addr |-> AddrExtSensBase + 44, Scale |-> 100, RegCount |-> 1],
     [name |-> "ExtSensTFloor5", Addr |-> AddrExtSensBase + 45, Scale |-> 10, RegCount |-> 1],
     [name |-> "ExtSensTemp6", Addr |-> AddrExtSensBase + 52, Scale |-> 10, RegCount |-> 1],
     [name |-> "ExtSensRH6", Addr |-> AddrExtSensBase + 53, Scale |-> 100, RegCount |-> 1],
     [name |-> "ExtSensCo26", Addr |-> AddrExtSensBase + 54, Scale |-> 100, RegCount |-> 1],
     [name |-> "ExtSensTFloor6", Addr |-> AddrExtSensBase + 55, Scale |-> 10, RegCount |-> 1],
     [name |-> "ExtSensTemp7", Addr |-> AddrExtSensBase + 62, Scale |-> 10, RegCount |-> 1],
     [name |-> "ExtSensRH7", Addr |-> AddrExtSensBase + 63, Scale |-> 100, RegCount |-> 1],
     [name |-> "ExtSensCo27", Addr |-> AddrExtSensBase + 64, Scale |-> 100, RegCount |-> 1],
     [name |-> "ExtSensTFloor7", Addr |-> AddrExtSensBase + 65, Scale |-> 10, RegCount |-> 1],
     [name |-> "ExtSensTemp8", Addr |-> AddrExtSensBase + 72, Scale |-> 10, RegCount |-> 1],
     [name |-> "ExtSensRH8", Addr |-> AddrExtSensBase + 73, Scale |-> 100, RegCount |-> 1],
     [name |-> "ExtSensCo28", Addr |-> AddrExtSensBase + 74, Scale |-> 100, RegCount |-> 1],
     [name |-> "ExtSensTFloor8", Addr |-> AddrExtSensBase + 75, Scale |-> 10, RegCount |-> 1]}

WriteableNames == {row.name : row \in WriteableFieldRows}

\* spec, ok := WriteableFields[name]: the zero WriteFieldSpec for a name that
\* is no key.
WriteableFields(name) ==
    IF name \in WriteableNames
    THEN CHOOSE row \in WriteableFieldRows : row.name = name
    ELSE [name |-> name, Addr |-> 0, Scale |-> 0, RegCount |-> 0]

\* The address next to the one of the field.
SpecAddrNext(name) == W16(WriteableFields(name).Addr + 1)

\* spec.Addr, the address WriteSingleRegister writes.
SpecAddr(name) == WriteableFields(name).Addr

\* scaled := int64(value / spec.Scale)
Scaled(name, value) == QuotInt(value, WriteableFields(name).Scale)

\* encoded = uint16(int16(scaled))
Encoded(name, value) == W16(Scaled(name, value))

\* The checks without the test of ok: an unknown name goes on with the zero
\* WriteFieldSpec.
WriteSingleCheckNoLookup(name, value) ==
    IF WriteableFields(name).RegCount # 1 THEN "single-register write not supported"
    ELSE IF WriteableFields(name).Scale = 0 THEN "invalid scale"
    ELSE IF Scaled(name, value) < -32768 \/ Scaled(name, value) > 65535
         THEN "value out of range"
    ELSE "none"

\* The checks of WriteSingleRegister that precede the write: the error they
\* return, or "none".
WriteSingleCheck(name, value) ==
    IF name \notin WriteableNames THEN "unknown or not-writable field"
    ELSE IF WriteableFields(name).RegCount # 1 THEN "single-register write not supported"
    ELSE IF WriteableFields(name).Scale = 0 THEN "invalid scale"
    ELSE IF Scaled(name, value) < -32768 \/ Scaled(name, value) > 65535
         THEN "value out of range"
    ELSE "none"

(***************************************************************************)
(* The holding register codec.                                             *)
(***************************************************************************)
\* A lookup that yields all ones for an address the map does not hold.
u16AbsentOnes(m, addr) == IF addr \in DOMAIN m THEN m[addr] ELSE U16 - 1

\* m[addr]: the zero value for an address the map does not hold.
u16(m, addr) == IF addr \in DOMAIN m THEN m[addr] ELSE 0

\* (hi << 16) | lo, kept as its two base-65536 digits <<hi, lo>>.
u32(m, addr) == <<u16(m, addr), u16(m, W16(addr + 1))>>

\* A decode that takes the register as unsigned.
i16fUnsigned(m, addr, scale) == ScaleMul(u16(m, addr), scale)

\* v := int16(m[addr]); float64(v) * scale
i16f(m, addr, scale) ==
    LET v == IF u16(m, addr) >= 32768 THEN u16(m, addr) - U16 ELSE u16(m, addr)
    IN  ScaleMul(v, scale)

u16f(m, addr, scale) == ScaleMul(u16(m, addr), scale)

\* A split that returns the low word first.
splitU32LowFirst(v) == <<v[2] % U16, v[1] % U16>>

\* return uint16(v >> 16), uint16(v & 0xFFFF)
splitU32(v) == <<v[1] % U16, v[2] % U16>>

DecodeHoldingMap(m) ==
    [FuncVentilation |-> u16(m, AddrHoldingFuncVentilation),
     FuncBoostTm |-> u16(m, AddrHoldingFuncBoostTm),
     FuncCirculationTm |-> u16(m, AddrHoldingFuncCirculationTm),
     FuncOverpressureTm |-> u16(m, AddrHoldingFuncOverpressureTm),
     FuncNightTm |-> u16(m, AddrHoldingFuncNightTm),
     FuncPartyTm |-> u16(m, AddrHoldingFuncPartyTm),
     FuncAwayBegin |-> u32(m, AddrHoldingFuncAwayBegin),
     FuncAwayEnd |-> u32(m, AddrHoldingFuncAwayEnd),
     CfgTempSet |-> i16f(m, AddrHoldingCfgTempSet, 10),
     CfgHumiSet |-> u16f(m, AddrHoldingCfgHumiSet, 10),
     FuncTimeProg |-> u16(m, AddrHoldingFuncTimeProg),
     FuncAntiradon |-> u16(m, AddrHoldingFuncAntiradon),
     CfgBypassEnable |-> u16(m, AddrHoldingCfgBypassEnable),
     CfgHeatingEnable |-> u16(m, AddrHoldingCfgHeatingEnable),
     CfgCoolingEnable |-> u16(m, AddrHoldingCfgCoolingEnable),
     CfgComfortEnable |-> u16(m, AddrHoldingCfgComfortEnable),
     VzvCBPriorityControl |-> u16(m, AddrHoldingVzvCBPriorityControl),
     VzvKitchenhoodNormallyOpen |-> u16(m, AddrHoldingVzvKitchenhoodNormallyOpen),
     VzvBoostVolumePerRun |-> u16(m, AddrHoldingVzvBoostVolumePerRun),
     VzvKitchenhoodNormallyOpenVolume |->
         u16(m, AddrHoldingVzvKitchenhoodNormallyOpenVolume),
     UITempCorr |-> [i \in 1 .. HoldingUIInstances |->
         i16f(m, AddrHoldingUITempCorrBase + (i - 1) * 5, 10)],
     ExtSensTempCorr |-> [i \in 1 .. HoldingExtSensInstances |->
         i16f(m, AddrHoldingExtSensTempCorrBase + (i - 1) * 5, 10)],
     AlfaTempCorr |-> [i \in 1 .. AlfaInstances |->
         i16f(m, AddrHoldingAlfaTempCorrBase + (i - 1) * 5, 10)],
     AlfaNTCTempCorr |-> [i \in 1 .. AlfaInstances |->
         i16f(m, AddrHoldingAlfaNTCTempCorrBase + (i - 1) * 5, 10)],
     ExtBtnPresent |-> [i \in 1 .. HoldingExtBtnInstances |->
         u16(m, AddrHoldingExtBtnBase + (i - 1) * 10)],
     ExtBtnMode |-> [i \in 1 .. HoldingExtBtnInstances |->
         u16(m, AddrHoldingExtBtnBase + (i - 1) * 10 + 1)],
     ExtBtnTm |-> [i \in 1 .. HoldingExtBtnInstances |->
         u16(m, AddrHoldingExtBtnBase + (i - 1) * 10 + 2)],
     ExtBtnActive |-> [i \in 1 .. HoldingExtBtnInstances |->
         u16(m, AddrHoldingExtBtnBase + (i - 1) * 10 + 3)],
     AccessCode |-> u16(m, AddrHoldingAccessCode),
     UserPassword |-> u16(m, AddrHoldingUserPassword),
     PasswordTimeout |-> u16(m, AddrHoldingPasswordTimeout)]

\* The map entries of one array field: element i at base + i * step.
ArrayRegs(base, step, vals) ==
    [a \in {base + (i - 1) * step : i \in 1 .. Len(vals)} |->
        vals[(a - base) \div step + 1]]

\* conv: how the build converts a float64 that does not fit the integer type.
EncodeHoldingRegs(r, conv) ==
    LET tempCorr(x) == I16Bits(QuotInt(x, 10), conv)
        corrs(xs) == [i \in 1 .. Len(xs) |-> tempCorr(xs[i])]
    IN  (AddrHoldingPasswordTimeout :> r.PasswordTimeout)
        @@ (AddrHoldingUserPassword :> r.UserPassword)
        @@ (AddrHoldingAccessCode :> r.AccessCode)
        @@ ArrayRegs(AddrHoldingExtBtnBase + 3, 10, r.ExtBtnActive)
        @@ ArrayRegs(AddrHoldingExtBtnBase + 2, 10, r.ExtBtnTm)
        @@ ArrayRegs(AddrHoldingExtBtnBase + 1, 10, r.ExtBtnMode)
        @@ ArrayRegs(AddrHoldingExtBtnBase, 10, r.ExtBtnPresent)
        @@ ArrayRegs(AddrHoldingAlfaNTCTempCorrBase, 5, corrs(r.AlfaNTCTempCorr))
        @@ ArrayRegs(AddrHoldingAlfaTempCorrBase, 5, corrs(r.AlfaTempCorr))
        @@ ArrayRegs(AddrHoldingExtSensTempCorrBase, 5, corrs(r.ExtSensTempCorr))
        @@ ArrayRegs(AddrHoldingUITempCorrBase, 5, corrs(r.UITempCorr))
        @@ (AddrHoldingVzvKitchenhoodNormallyOpenVolume :>
                r.VzvKitchenhoodNormallyOpenVolume)
        @@ (AddrHoldingVzvBoostVolumePerRun :> r.VzvBoostVolumePerRun)
        @@ (AddrHoldingVzvKitchenhoodNormallyOpen :> r.VzvKitchenhoodNormallyOpen)
        @@ (AddrHoldingVzvCBPriorityControl :> r.VzvCBPriorityControl)
        @@ (AddrHoldingCfgComfortEnable :> r.CfgComfortEnable)
        @@ (AddrHoldingCfgCoolingEnable :> r.CfgCoolingEnable)
        @@ (AddrHoldingCfgHeatingEnable :> r.CfgHeatingEnable)
        @@ (AddrHoldingCfgBypassEnable :> r.CfgBypassEnable)
        @@ (AddrHoldingFuncAntiradon :> r.FuncAntiradon)
        @@ (AddrHoldingFuncTimeProg :> r.FuncTimeProg)
        @@ (AddrHoldingCfgHumiSet :> U16Bits(QuotInt(r.CfgHumiSet, 10), conv))
        @@ (AddrHoldingCfgTempSet :> tempCorr(r.CfgTempSet))
        @@ (AddrHoldingFuncAwayEnd + 1 :> splitU32(r.FuncAwayEnd)[2])
        @@ (AddrHoldingFuncAwayEnd :> splitU32(r.FuncAwayEnd)[1])
        @@ (AddrHoldingFuncAwayBegin + 1 :> splitU32(r.FuncAwayBegin)[2])
        @@ (AddrHoldingFuncAwayBegin :> splitU32(r.FuncAwayBegin)[1])
        @@ (AddrHoldingFuncPartyTm :> r.FuncPartyTm)
        @@ (AddrHoldingFuncNightTm :> r.FuncNightTm)
        @@ (AddrHoldingFuncOverpressureTm :> r.FuncOverpressureTm)
        @@ (AddrHoldingFuncCirculationTm :> r.FuncCirculationTm)
        @@ (AddrHoldingFuncBoostTm :> r.FuncBoostTm)
        @@ (AddrHoldingFuncVentilation :> r.FuncVentilation)

(***************************************************************************)
(* Requests and replies of the HTTP handlers.                              *)
(***************************************************************************)
\* A value of the decoded JSON object: a number (float64) or something else.
Num(h) == [num |-> TRUE, f |-> Lit(h)]

NotNum == [num |-> FALSE, f |-> Lit(0)]

WriteReq(method, json, data) ==
    [path |-> "/api/write-holding", method |-> method, json |-> json, data |-> data]

ReadReq(path) == [path |-> path, method |-> "GET", json |-> TRUE, data |-> << >>]

NoReq == [path |-> "", method |-> "", json |-> TRUE, data |-> << >>]

\* The reply: who answered, success, the error text and the address it names.
Reply(success, error, addr) == [success |-> success, error |-> error, addr |-> addr]

NoReply == Reply(FALSE, "pending", -1)

\* The locals of a handler or of a poll cycle.
Locals(req) ==
    [req |-> req, inputMap |-> << >>, encoded |-> << >>, todo |-> << >>,
     body |-> << >>, resp |-> NoReply]

\* The range tables the package variables are initialised with.
InputRangeTable ==
    <<<<0, 21>>, <<30, 38>>, <<40, 52>>, <<60, 75>>, <<100, 154>>, <<160, 165>>,
      <<170, 175>>, <<180, 185>>, <<190, 195>>, <<200, 205>>, <<210, 215>>,
      <<220, 225>>, <<230, 235>>>>

HoldingRangeTable ==
    <<<<0, 17>>, <<20, 23>>, <<300, 305>>, <<310, 315>>, <<320, 325>>, <<330, 335>>,
      <<340, 345>>, <<350, 355>>, <<360, 365>>, <<370, 375>>, <<400, 403>>,
      <<410, 413>>, <<420, 423>>, <<430, 433>>, <<440, 443>>, <<450, 453>>,
      <<460, 463>>, <<470, 473>>>>

\* A table cut to its first n ranges.
FirstRanges(ranges, n) ==
    SubSeq(ranges, 1, IF n < Len(ranges) THEN n ELSE Len(ranges))

\* collectRanges(client, regType, ranges, runtimeMaxBlockSize): task t enters
\* the call and goes on at ret when it returns.
Call(t, regType, ranges, ret) ==
    /\ cr' = [cr EXCEPT ![t] = Frame(regType, ranges, runtimeMaxBlockSize, ret)]
    /\ pc' = [pc EXCEPT ![t] = "cr_call"]

\* The handler of task t answers and returns.
Answer(t, reply) ==
    /\ hf' = [hf EXCEPT ![t].resp = reply]
    /\ pc' = [pc EXCEPT ![t] = "idle"]

(***************************************************************************)
(* handleWriteHolding.                                                     *)
(***************************************************************************)
WriteNotPost(t) ==
    /\ pc[t] = "wh_start"
    /\ hf[t].req.method # "POST"
    /\ Answer(t, Reply(FALSE, "POST required", -1))
    /\ UNCHANGED <<devH, conn, faults, globals, served, cr, rdlog, wrlog>>

WriteInvalidJSON(t) ==
    /\ pc[t] = "wh_start"
    /\ hf[t].req.method = "POST"
    /\ ~hf[t].req.json
    /\ Answer(t, Reply(FALSE, "Invalid JSON", -1))
    /\ UNCHANGED <<devH, conn, faults, globals, served, cr, rdlog, wrlog>>

\* len(data) == 1: the one key and its value.
IsSingle(t) ==
    /\ pc[t] = "wh_start"
    /\ hf[t].req.method = "POST"
    /\ hf[t].req.json
    /\ Cardinality(DOMAIN hf[t].req.data) = 1

SingleKey(t) == CHOOSE k \in DOMAIN hf[t].req.data : TRUE

SingleVal(t) == hf[t].req.data[SingleKey(t)]

\* val, ok := v.(float64) with !ok
SingleInvalidType(t) ==
    /\ IsSingle(t)
    /\ ~SingleVal(t).num
    /\ Answer(t, Reply(FALSE, "invalid value type", -1))
    /\ UNCHANGED <<devH, conn, faults, globals, served, cr, rdlog, wrlog>>

\* WriteSingleRegister returns an error before it writes.
SingleRejected(t) ==
    /\ IsSingle(t)
    /\ SingleVal(t).num
    /\ WriteSingleCheck(SingleKey(t), SingleVal(t).f) # "none"
    /\ Answer(t, Reply(FALSE, WriteSingleCheck(SingleKey(t), SingleVal(t).f), -1))
    /\ UNCHANGED <<devH, conn, faults, globals, served, cr, rdlog, wrlog>>

\* client.WriteRegister(addr, val) returns nil: the register holds val.
WriteRegisterOk(t, addr, val) ==
    /\ conn = "open"
    /\ devH' = [a \in (DOMAIN devH) \cup {addr} |-> IF a = addr THEN val ELSE devH[a]]
    /\ wrlog' = [wrlog EXCEPT ![t] = Append(@, [addr |-> addr, val |-> val, ok |-> TRUE])]
    /\ UNCHANGED <<conn, faults>>

\* client.WriteRegister(addr, val) returns an error: a transport fault, or
\* the connection is closed.
WriteRegisterFail(t, addr, val) ==
    /\ IF conn = "open"
       THEN faults < MaxFaults /\ faults' = faults + 1
       ELSE faults' = faults
    /\ wrlog' = [wrlog EXCEPT ![t] = Append(@, [addr |-> addr, val |-> val, ok |-> FALSE])]
    /\ UNCHANGED <<devH, conn>>

\* A failed write answered as a success.
WriteErrorDropped(addr) == Reply(TRUE, "", -1)

\* fmt.Errorf("write register %d: %w", addr, err), answered with success false.
WriteError(addr) == Reply(FALSE, "write register", addr)

SingleWriteOk(t) ==
    /\ IsSingle(t)
    /\ SingleVal(t).num
    /\ WriteSingleCheck(SingleKey(t), SingleVal(t).f) = "none"
    /\ WriteRegisterOk(t, SpecAddr(SingleKey(t)),
                       Encoded(SingleKey(t), SingleVal(t).f))
    /\ Answer(t, Reply(TRUE, "", -1))
    /\ UNCHANGED <<globals, served, cr, rdlog>>

SingleWriteFail(t) ==
    /\ IsSingle(t)
    /\ SingleVal(t).num
    /\ WriteSingleCheck(SingleKey(t), SingleVal(t).f) = "none"
    /\ WriteRegisterFail(t, SpecAddr(SingleKey(t)),
                         Encoded(SingleKey(t), SingleVal(t).f))
    /\ Answer(t, WriteError(SpecAddr(SingleKey(t))))
    /\ UNCHANGED <<globals, served, cr, rdlog>>

\* Otherwise: holdingMap := collectRanges(client, HOLDING_REGISTER, ...)
BulkStart(t) ==
    /\ pc[t] = "wh_start"
    /\ hf[t].req.method = "POST"
    /\ hf[t].req.json
    /\ Cardinality(DOMAIN hf[t].req.data) # 1
    /\ Call(t, "holding", holdingRanges, "wh_encode")
    /\ UNCHANGED <<devH, conn, faults, globals, served, rdlog, hf, wrlog>>

\* The fields the bulk update takes from the request.
OverrideU16Names ==
    {"FuncVentilation", "FuncBoostTm", "FuncCirculationTm", "FuncPartyTm",
     "FuncNightTm", "FuncOverpressureTm", "CfgBypassEnable", "CfgHeatingEnable",
     "CfgCoolingEnable", "CfgComfortEnable", "FuncTimeProg", "FuncAntiradon",
     "VzvCBPriorityControl", "VzvKitchenhoodNormallyOpen", "VzvBoostVolumePerRun",
     "VzvKitchenhoodNormallyOpenVolume"}

OverrideFloatNames == {"CfgTempSet", "CfgHumiSet"}

\* v.(float64) of a value that is not a number panics.
Panics(data) ==
    \E k \in (OverrideU16Names \cup OverrideFloatNames) \cap DOMAIN data : ~data[k].num

\* holding.X = uint16(v.(float64)) and holding.X = v.(float64)
ApplyOverrides(holding, data, conv) ==
    [k \in DOMAIN holding |->
        IF k \in OverrideU16Names \cap DOMAIN data
        THEN U16Bits(QuotInt(data[k].f, 100), conv)
        ELSE IF k \in OverrideFloatNames \cap DOMAIN data
        THEN data[k].f
        ELSE holding[k]]

\* The keys of a map in ascending order.
RECURSIVE Ascending(_)
Ascending(S) ==
    IF S = {} THEN << >>
    ELSE LET lo == CHOOSE x \in S : \A y \in S : x <= y
         IN  <<lo>> \o Ascending(S \ {lo})

\* for addr, val := range registerMap visits the keys in an order that the
\* runtime chooses: here the ascending order started at one of these keys.
OrderFirstKeys ==
    {AddrHoldingFuncVentilation, AddrHoldingCfgTempSet, AddrHoldingAccessCode}

MapOrders(m) ==
    {Ascending({a \in DOMAIN m : a >= k}) \o Ascending({a \in DOMAIN m : a < k}) :
        k \in OrderFirstKeys \cap DOMAIN m}

BulkPanic(t) ==
    /\ pc[t] = "wh_encode"
    /\ Panics(hf[t].req.data)
    /\ Answer(t, Reply(FALSE, "panic", -1))
    /\ UNCHANGED <<devH, conn, faults, globals, served, cr, rdlog, wrlog>>

\* holding := DecodeHoldingMap(holdingMap), the overrides, and
\* encoded := EncodeHoldingRegs(holding); writeRegisters starts its loop.
BulkEncode(t) ==
    /\ pc[t] = "wh_encode"
    /\ ~Panics(hf[t].req.data)
    /\ \E conv \in FloatConvs :
          LET holding == ApplyOverrides(DecodeHoldingMap(cr[t].out), hf[t].req.data, conv)
              encoded == EncodeHoldingRegs(holding, conv)
          IN  \E order \in MapOrders(encoded) :
                  hf' = [hf EXCEPT ![t].encoded = encoded, ![t].todo = order]
    /\ pc' = [pc EXCEPT ![t] = "wh_write"]
    /\ UNCHANGED <<devH, conn, faults, globals, served, cr, rdlog, wrlog>>

\* The registers handleWriteHolding sets out to write for a payload, given
\* the holding map it would read: the one register of the single-field path
\* when the payload has one key, the encoded state otherwise.
WritePlan(data, holdingMap, conv) ==
    IF Cardinality(DOMAIN data) = 1
    THEN LET name == CHOOSE k \in DOMAIN data : TRUE
         IN  IF data[name].num /\ WriteSingleCheck(name, data[name].f) = "none"
             THEN SpecAddr(name) :> Encoded(name, data[name].f)
             ELSE << >>
    ELSE IF Panics(data) THEN << >>
    ELSE EncodeHoldingRegs(ApplyOverrides(DecodeHoldingMap(holdingMap), data, conv), conv)

\* One turn of the loop of writeRegisters whose write succeeds; after the
\* last one the handler answers success.
BulkWriteOk(t) ==
    /\ pc[t] = "wh_write"
    /\ LET addr == Head(hf[t].todo)
       IN  /\ WriteRegisterOk(t, addr, hf[t].encoded[addr])
           /\ IF Len(hf[t].todo) = 1
              THEN /\ hf' = [hf EXCEPT ![t].todo = << >>,
                                       ![t].resp = Reply(TRUE, "", -1)]
                   /\ pc' = [pc EXCEPT ![t] = "idle"]
              ELSE /\ hf' = [hf EXCEPT ![t].todo = Tail(@)]
                   /\ pc' = pc
    /\ UNCHANGED <<globals, served, cr, rdlog>>

\* A loop that logs the failed write and goes on with the next key.
BulkWriteFailContinue(t) ==
    /\ pc[t] = "wh_write"
    /\ WriteRegisterFail(t, Head(hf[t].todo), hf[t].encoded[Head(hf[t].todo)])
    /\ IF Len(hf[t].todo) = 1
       THEN /\ hf' = [hf EXCEPT ![t].resp = WriteError(Head(hf[t].todo))]
            /\ pc' = [pc EXCEPT ![t] = "idle"]
       ELSE /\ hf' = [hf EXCEPT ![t].todo = Tail(@)]
            /\ pc' = pc
    /\ UNCHANGED <<globals, served, cr, rdlog>>

\* A write of the loop fails: writeRegisters returns the error at once.
BulkWriteFail(t) ==
    /\ pc[t] = "wh_write"
    /\ WriteRegisterFail(t, Head(hf[t].todo), hf[t].encoded[Head(hf[t].todo)])
    /\ Answer(t, WriteError(Head(hf[t].todo)))
    /\ UNCHANGED <<globals, served, cr, rdlog>>

SingleStep(t) ==
    \/ SingleWriteOk(t)
    \/ SingleWriteFail(t)

BulkStep(t) ==
    \/ BulkStart(t)
    \/ BulkEncode(t)
    \/ BulkWriteOk(t)
    \/ BulkWriteFail(t)

(***************************************************************************)
(* handleReadHolding, handleReadInput and the poll loop of main.           *)
(***************************************************************************)
ReadHoldingStart(t) ==
    /\ pc[t] = "rh_start"
    /\ Call(t, "holding", holdingRanges, "rh_reply")
    /\ UNCHANGED <<devH, conn, faults, globals, served, rdlog, hf, wrlog>>

ReadHoldingReply(t) ==
    /\ pc[t] = "rh_reply"
    /\ hf' = [hf EXCEPT ![t].body = DecodeHoldingMap(cr[t].out),
                        ![t].resp = Reply(TRUE, "", -1)]
    /\ pc' = [pc EXCEPT ![t] = "idle"]
    /\ UNCHANGED <<devH, conn, faults, globals, served, cr, rdlog, wrlog>>

\* DecodeInputMap, cut to three of the device fields and to the fields that
\* the merges below assign.
DecodeInputMap(m) ==
    [FactDeviceID |-> u16(m, AddrFactDeviceID),
     FactSerialNum |-> u32(m, AddrFactSerialNum),
     TempAmbient |-> i16f(m, AddrFutTempAmbient, 10),
     ExtSensPresent |-> [i \in 1 .. ExtSensInstances |->
         u16(m, AddrExtSensBase + (i - 1) * 10)],
     ExtSensInvalidate |-> [i \in 1 .. ExtSensInstances |->
         u16(m, AddrExtSensBase + (i - 1) * 10 + 1)],
     ExtSensTemp |-> [i \in 1 .. ExtSensInstances |->
         i16f(m, AddrExtSensBase + (i - 1) * 10 + 2, 10)],
     ExtSensRH |-> [i \in 1 .. ExtSensInstances |->
         u16f(m, AddrExtSensBase + (i - 1) * 10 + 3, 100)],
     ExtSensCo2 |-> [i \in 1 .. ExtSensInstances |->
         u16(m, AddrExtSensBase + (i - 1) * 10 + 4)],
     ExtSensTFloor |-> [i \in 1 .. ExtSensInstances |->
         i16f(m, AddrExtSensBase + (i - 1) * 10 + 5, 10)],
     ExtBtnPresent |-> [i \in 1 .. HoldingExtBtnInstances |-> 0],
     ExtBtnMode |-> [i \in 1 .. HoldingExtBtnInstances |-> 0],
     ExtBtnTm |-> [i \in 1 .. HoldingExtBtnInstances |-> 0],
     ExtBtnActive |-> [i \in 1 .. HoldingExtBtnInstances |-> 0]]

\* A merge that leaves the decoded input record as it is.
MergeKeepInput(decoded, holdingMap) == decoded

\* A merge that assigns an external-sensor temperature only when the holding
\* map holds its register.
MergeIfPresent(decoded, holdingMap) ==
    [decoded EXCEPT
        !.ExtSensPresent = DecodeInputMap(holdingMap).ExtSensPresent,
        !.ExtSensInvalidate = DecodeInputMap(holdingMap).ExtSensInvalidate,
        !.ExtSensTemp = [i \in 1 .. ExtSensInstances |->
            IF AddrExtSensBase + (i - 1) * 10 + 2 \in DOMAIN holdingMap
            THEN DecodeInputMap(holdingMap).ExtSensTemp[i]
            ELSE decoded.ExtSensTemp[i]],
        !.ExtSensRH = DecodeInputMap(holdingMap).ExtSensRH,
        !.ExtSensCo2 = DecodeInputMap(holdingMap).ExtSensCo2,
        !.ExtSensTFloor = DecodeInputMap(holdingMap).ExtSensTFloor,
        !.ExtBtnPresent = DecodeHoldingMap(holdingMap).ExtBtnPresent,
        !.ExtBtnMode = DecodeHoldingMap(holdingMap).ExtBtnMode,
        !.ExtBtnTm = DecodeHoldingMap(holdingMap).ExtBtnTm,
        !.ExtBtnActive = DecodeHoldingMap(holdingMap).ExtBtnActive]

\* The two merge loops: the external sensor and external button fields are
\* assigned from the holding map.
MergeHolding(decoded, holdingMap) ==
    [decoded EXCEPT
        !.ExtSensPresent = DecodeInputMap(holdingMap).ExtSensPresent,
        !.ExtSensInvalidate = DecodeInputMap(holdingMap).ExtSensInvalidate,
        !.ExtSensTemp = DecodeInputMap(holdingMap).ExtSensTemp,
        !.ExtSensRH = DecodeInputMap(holdingMap).ExtSensRH,
        !.ExtSensCo2 = DecodeInputMap(holdingMap).ExtSensCo2,
        !.ExtSensTFloor = DecodeInputMap(holdingMap).ExtSensTFloor,
        !.ExtBtnPresent = DecodeHoldingMap(holdingMap).ExtBtnPresent,
        !.ExtBtnMode = DecodeHoldingMap(holdingMap).ExtBtnMode,
        !.ExtBtnTm = DecodeHoldingMap(holdingMap).ExtBtnTm,
        !.ExtBtnActive = DecodeHoldingMap(holdingMap).ExtBtnActive]

ReadInputStart(t) ==
    /\ pc[t] = "ri_start"
    /\ Call(t, "input", inputRanges, "ri_holding")
    /\ UNCHANGED <<devH, conn, faults, globals, served, rdlog, hf, wrlog>>

ReadInputHolding(t) ==
    /\ pc[t] = "ri_holding"
    /\ hf' = [hf EXCEPT ![t].inputMap = cr[t].out]
    /\ Call(t, "holding", holdingRanges, "ri_reply")
    /\ UNCHANGED <<devH, conn, faults, globals, served, rdlog, wrlog>>

ReadInputReply(t) ==
    /\ pc[t] = "ri_reply"
    /\ hf' = [hf EXCEPT ![t].body = MergeHolding(DecodeInputMap(hf[t].inputMap), cr[t].out),
                        ![t].resp = Reply(TRUE, "", -1)]
    /\ pc' = [pc EXCEPT ![t] = "idle"]
    /\ UNCHANGED <<devH, conn, faults, globals, served, cr, rdlog, wrlog>>

\* pollInterval := 5 * time.Second and runtimeMaxBlockSize =
\* uint16(*flagMaxBlockSize), after the HTTP server was started.
SetBlockSize(t) ==
    /\ pc[t] = "main_start"
    /\ pollInterval' = 5
    /\ runtimeMaxBlockSize' = W16(flagMaxBlockSize)
    /\ pc' = [pc EXCEPT ![t] = "poll_wait"]
    /\ UNCHANGED <<devH, conn, faults, args, inputRanges, holdingRanges, cr, rdlog, hf,
                   wrlog, served>>

\* A tick: inputMap := collectRanges(client, INPUT_REGISTER, ...)
PollInput(t) ==
    /\ pc[t] = "poll_wait"
    /\ served[t] < MaxCycles
    /\ served' = [served EXCEPT ![t] = @ + 1]
    /\ Call(t, "input", inputRanges, "poll_holding")
    /\ UNCHANGED <<devH, conn, faults, globals, rdlog, hf, wrlog>>

PollHolding(t) ==
    /\ pc[t] = "poll_holding"
    /\ hf' = [hf EXCEPT ![t].inputMap = cr[t].out]
    /\ Call(t, "holding", holdingRanges, "poll_merge")
    /\ UNCHANGED <<devH, conn, faults, globals, served, rdlog, wrlog>>

\* The decode, the merges and UpdatePrometheus(decoded).
PollMerge(t) ==
    /\ pc[t] = "poll_merge"
    /\ hf' = [hf EXCEPT ![t].body = MergeHolding(DecodeInputMap(hf[t].inputMap), cr[t].out)]
    /\ pc' = [pc EXCEPT ![t] = "poll_wait"]
    /\ UNCHANGED <<devH, conn, faults, globals, served, cr, rdlog, wrlog>>

ReadStep(t) ==
    \/ ReadHoldingStart(t)
    \/ ReadHoldingReply(t)
    \/ ReadInputStart(t)
    \/ ReadInputHolding(t)
    \/ ReadInputReply(t)

PollStep(t) ==
    \/ SetBlockSize(t)
    \/ PollInput(t)
    \/ PollHolding(t)
    \/ PollMerge(t)

(***************************************************************************)
(* SpecCollect: one call of collectRanges, on every list of one or two     *)
(* ranges within the bounds, on the ranges at the top of the address       *)
(* space, and with every pattern of at most MaxFaults faults.              *)
(***************************************************************************)
SmallRanges ==
    {<<s, e>> : s \in 0 .. MaxStart, e \in 0 .. (MaxStart + MaxLen - 1)}

ValidRanges == {r \in SmallRanges : r[1] <= r[2] /\ r[2] - r[1] < MaxLen}

RangeLists ==
    {<<r>> : r \in ValidRanges} \cup {<<r1, r2>> : r1 \in ValidRanges, r2 \in ValidRanges}

SmallConfigs ==
    {[ranges |-> rs, maxBlockSize |-> b, regType |-> k, faulty |-> TRUE] :
        rs \in RangeLists, b \in 1 .. MaxB, k \in {"input", "holding"}}

\* Ranges that validateRanges accepts with a maximum address of 65535.
\* The last of them is explored without faults (faulty = FALSE): its maps hold
\* tens of thousands of registers.
WideConfigs ==
    {[ranges |-> <<<<0, U16 - 1>>>>, maxBlockSize |-> 1,
      regType |-> "holding", faulty |-> TRUE],
     [ranges |-> <<<<0, U16 - 1>>>>, maxBlockSize |-> U16 - 1,
      regType |-> "holding", faulty |-> TRUE],
     [ranges |-> <<<<U16 - 2, U16 - 1>>>>, maxBlockSize |-> 1,
      regType |-> "input", faulty |-> TRUE],
     [ranges |-> <<<<U16 - 3, U16 - 1>>>>, maxBlockSize |-> 2,
      regType |-> "input", faulty |-> TRUE],
     [ranges |-> <<<<0, U16 - 2>>>>, maxBlockSize |-> U16 \div 2,
      regType |-> "input", faulty |-> FALSE]}

CollectConfigs == SmallConfigs \cup WideConfigs

InitCollect ==
    /\ devH = << >>
    /\ conn = "open"
    /\ runtimeMaxBlockSize = 0
    /\ args = << >>
    /\ pollInterval = 0
    /\ \E c \in CollectConfigs :
          /\ faults = IF c.faulty THEN 0 ELSE MaxFaults
          /\ cr = [t \in Tasks |->
                      IF t = "c"
                      THEN Frame(c.regType, c.ranges, c.maxBlockSize, "done")
                      ELSE IdleFrame]
    /\ pc = [t \in Tasks |-> IF t = "c" THEN "cr_call" ELSE "idle"]
    /\ rdlog = [t \in Tasks |-> {}]
    /\ hf = [t \in Tasks |-> Locals(NoReq)]
    /\ wrlog = [t \in Tasks |-> << >>]
    /\ served = [t \in Tasks |-> 0]
    /\ inputRanges = FirstRanges(InputRangeTable, MaxRanges)
    /\ holdingRanges = FirstRanges(HoldingRangeTable, MaxRanges)

NextCollect == CollectStep("c")

SpecCollect == InitCollect /\ [][NextCollect]_vars

(***************************************************************************)
(* SpecWrite: one request to /api/write-holding, served by task "h1" after *)
(* start-up, with every pattern of at most MaxFaults faults.               *)
(***************************************************************************)
\* Writable fields of scale 1.0 and 0.1, first and last instances of an
\* array, a holding field that is not writable, a two-register field and a
\* name that is no field at all.
SingleNames ==
    {"FuncVentilation", "CfgTempSet", "CfgHumiSet", "ExtSensTemp1",
     "ExtSensTempCorr8", "AccessCode", "FuncAwayBegin", "NoSuchField"}

SampleValues == {x.h : x \in LitTable}

SingleRequests ==
    {WriteReq("POST", TRUE, n :> Num(h)) : n \in SingleNames, h \in SampleValues}
        \cup {WriteReq("POST", TRUE, "CfgTempSet" :> NotNum)}

BulkRequests ==
    {WriteReq("POST", TRUE, << >>),
     WriteReq("POST", TRUE, ("FuncVentilation" :> Num(300)) @@ ("CfgTempSet" :> Num(2150))),
     WriteReq("POST", TRUE, ("FuncBoostTm" :> Num(7000000)) @@ ("CfgHumiSet" :> Num(-10))),
     WriteReq("POST", TRUE, ("NoSuchField" :> Num(100)) @@ ("AccessCode" :> Num(100))),
     WriteReq("POST", TRUE, ("FuncVentilation" :> Num(300)) @@ ("NoSuchField" :> NotNum)),
     WriteReq("POST", TRUE, ("FuncVentilation" :> Num(100)) @@ ("FuncBoostTm" :> NotNum))}

WriteRequests ==
    SingleRequests \cup BulkRequests
        \cup {WriteReq("GET", TRUE, << >>), WriteReq("POST", FALSE, << >>)}

InitWrite ==
    /\ devH = << >>
    /\ conn = "open"
    /\ faults = 0
    /\ runtimeMaxBlockSize = W16(flagMaxBlockSize)
    /\ args = << >>
    /\ pollInterval = 0
    /\ pc = [t \in Tasks |-> IF t = "h1" THEN "wh_start" ELSE "idle"]
    /\ cr = [t \in Tasks |-> IdleFrame]
    /\ rdlog = [t \in Tasks |-> {}]
    /\ wrlog = [t \in Tasks |-> << >>]
    /\ served = [t \in Tasks |-> 0]
    /\ inputRanges = FirstRanges(InputRangeTable, MaxRanges)
    /\ holdingRanges = FirstRanges(HoldingRangeTable, MaxRanges)
    /\ \E req \in WriteRequests :
          hf = [t \in Tasks |-> IF t = "h1" THEN Locals(req) ELSE Locals(NoReq)]

\* The ways handleWriteHolding ends on a request it cannot serve.
RejectStep(t) ==
    \/ WriteNotPost(t)
    \/ WriteInvalidJSON(t)
    \/ SingleInvalidType(t)
    \/ SingleRejected(t)
    \/ BulkPanic(t)

NextWrite ==
    \/ RejectStep("h1")
    \/ SingleStep("h1")
    \/ BulkStep("h1")
    \/ CollectStep("h1")

SpecWrite == InitWrite /\ [][NextWrite]_vars

(***************************************************************************)
(* Spec: main and one HTTP connection.  Task "poll" is the main goroutine  *)
(* from the start of the HTTP server on; task "h1" serves the reads and    *)
(* single-field writes of one connection, one after the other.  Both use   *)
(* the one client, and nothing orders their steps.                         *)
(***************************************************************************)
Requests ==
    {ReadReq("/api/read-holding"), ReadReq("/api/read-input"),
     WriteReq("POST", TRUE, "CfgTempSet" :> Num(2150)),
     WriteReq("POST", TRUE, "FuncVentilation" :> Num(300))}

\* The server hands a request to the handler of its path.
Request(t) ==
    /\ pc[t] = "idle"
    /\ served[t] < MaxRequests
    /\ served' = [served EXCEPT ![t] = @ + 1]
    /\ \E req \in Requests :
          /\ hf' = [hf EXCEPT ![t] = Locals(req)]
          /\ pc' = [pc EXCEPT ![t] =
                       CASE req.path = "/api/read-holding" -> "rh_start"
                         [] req.path = "/api/read-input" -> "ri_start"
                         [] OTHER -> "wh_start"]
    /\ rdlog' = [rdlog EXCEPT ![t] = {}]
    /\ wrlog' = [wrlog EXCEPT ![t] = << >>]
    /\ UNCHANGED <<devH, conn, faults, globals, cr>>

Init ==
    /\ devH = << >>
    /\ conn = "open"
    /\ faults = 0
    /\ runtimeMaxBlockSize = 0
    /\ args = << >>
    /\ pollInterval = 0
    /\ pc = [t \in Tasks |-> IF t = "poll" THEN "main_start" ELSE "idle"]
    /\ cr = [t \in Tasks |-> IdleFrame]
    /\ rdlog = [t \in Tasks |-> {}]
    /\ wrlog = [t \in Tasks |-> << >>]
    /\ served = [t \in Tasks |-> 0]
    /\ hf = [t \in Tasks |-> Locals(NoReq)]
    /\ inputRanges = FirstRanges(InputRangeTable, MaxSharedRanges)
    /\ holdingRanges = FirstRanges(HoldingRangeTable, MaxSharedRanges)

Next ==
    \/ PollStep("poll")
    \/ CollectStep("poll")
    \/ Request("h1")
    \/ ReadStep("h1")
    \/ SingleStep("h1")
    \/ CollectStep("h1")

Spec == Init /\ [][Next]_vars

(***************************************************************************)
(* Startup: main validates the two range lists, opens the connection,      *)
(* starts the HTTP server and enters the poll loop.                        *)
(***************************************************************************)
\* The checks of validateRanges on one range, in the order of the code:
\* the text of the fatal error, or "ok".
RangeCheckNoMax(r, maxAddr) ==
    IF Len(r) # 2 THEN "must have exactly 2 values"
    ELSE IF r[1] > r[2] THEN "has start > end"
    ELSE "ok"

RangeCheck(r, maxAddr) ==
    IF Len(r) # 2 THEN "must have exactly 2 values"
    ELSE IF r[1] > r[2] THEN "has start > end"
    ELSE IF r[2] > maxAddr THEN "exceeds max address"
    ELSE "ok"

\* validateRanges(name, ranges, maxAddr): log.Fatalf at the first range that
\* fails a check.
validateRanges(ranges, maxAddr) ==
    LET bad == {idx \in 1 .. Len(ranges) : RangeCheck(ranges[idx], maxAddr) # "ok"}
    IN  IF bad = {} THEN "ok"
        ELSE RangeCheck(ranges[CHOOSE idx \in bad : \A j \in bad : idx <= j], maxAddr)

ValidateInput(t) ==
    /\ pc[t] = "main_validate_input"
    /\ pc' = [pc EXCEPT ![t] =
                 IF validateRanges(inputRanges, W16(flagInputMaxAddr)) = "ok"
                 THEN "main_validate_holding" ELSE "fatal_ranges"]
    /\ UNCHANGED <<devH, conn, faults, globals, served, cr, rdlog, hf, wrlog>>

ValidateHolding(t) ==
    /\ pc[t] = "main_validate_holding"
    /\ pc' = [pc EXCEPT ![t] =
                 IF validateRanges(holdingRanges, W16(flagHoldingMaxAddr)) = "ok"
                 THEN "main_open" ELSE "fatal_ranges"]
    /\ UNCHANGED <<devH, conn, faults, globals, served, cr, rdlog, hf, wrlog>>

\* err = client.Open() with err == nil; the handlers are registered and the
\* HTTP server is started.
MainOpenOk(t) ==
    /\ pc[t] = "main_open"
    /\ conn' = "open"
    /\ pc' = [pc EXCEPT ![t] = "main_start"]
    /\ UNCHANGED <<devH, faults, globals, served, cr, rdlog, hf, wrlog>>

\* log.Fatalf("Failed to connect")
MainOpenFail(t) ==
    /\ pc[t] = "main_open"
    /\ faults < MaxFaults
    /\ faults' = faults + 1
    /\ pc' = [pc EXCEPT ![t] = "fatal_open"]
    /\ UNCHANGED <<devH, conn, globals, served, cr, rdlog, hf, wrlog>>

StartupStep(t) ==
    \/ ValidateInput(t)
    \/ ValidateHolding(t)
    \/ MainOpenOk(t)
    \/ MainOpenFail(t)

\* The HTTP server is running.
ServerUp ==
    pc["poll"] \notin {"main_validate_input", "main_validate_holding", "main_open",
                       "fatal_ranges", "fatal_open"}

\* The server hands a read request to its handler.
ServeRead(t) ==
    /\ ServerUp
    /\ pc[t] = "idle"
    /\ served[t] < MaxRequests
    /\ served' = [served EXCEPT ![t] = @ + 1]
    /\ \E req \in {ReadReq("/api/read-holding"), ReadReq("/api/read-input")} :
          /\ hf' = [hf EXCEPT ![t] = Locals(req)]
          /\ pc' = [pc EXCEPT ![t] =
                       IF req.path = "/api/read-holding" THEN "rh_start" ELSE "ri_start"]
    /\ rdlog' = [rdlog EXCEPT ![t] = {}]
    /\ UNCHANGED <<devH, conn, faults, globals, cr, wrlog>>

\* Range lists as the package variables could be written: well formed, with
\* overlapping ranges, with a range of one or three values, with start > end,
\* with an end at and beyond the maximum address.
StartupInputLists ==
    {<< >>,
     <<<<0, 1>>>>,
     <<<<0, 2>>, <<1, 3>>>>,
     <<<<flagInputMaxAddr - 1, flagInputMaxAddr>>>>,
     <<<<0, 1>>, <<3>>>>,
     <<<<0, 1, 2>>>>,
     <<<<2, 1>>>>,
     <<<<flagInputMaxAddr - 1, flagInputMaxAddr + 1>>>>}

StartupHoldingLists ==
    {<<<<0, 1>>>>,
     <<<<flagHoldingMaxAddr - 1, flagHoldingMaxAddr>>>>,
     <<<<7>>>>,
     <<<<5, 4>>>>,
     <<<<0, 1>>, <<flagHoldingMaxAddr, flagHoldingMaxAddr + 1>>>>}

InitStartup ==
    /\ devH = << >>
    /\ conn = "closed"
    /\ faults = 0
    /\ runtimeMaxBlockSize = 0
    /\ args = << >>
    /\ pollInterval = 0
    /\ pc = [t \in Tasks |-> IF t = "poll" THEN "main_validate_input" ELSE "idle"]
    /\ cr = [t \in Tasks |-> IdleFrame]
    /\ rdlog = [t \in Tasks |-> {}]
    /\ wrlog = [t \in Tasks |-> << >>]
    /\ served = [t \in Tasks |-> 0]
    /\ hf = [t \in Tasks |-> Locals(NoReq)]
    /\ inputRanges \in StartupInputLists
    /\ holdingRanges \in StartupHoldingLists

NextStartup ==
    \/ StartupStep("poll")
    \/ PollStep("poll")
    \/ CollectStep("poll")
    \/ ServeRead("h1")
    \/ ReadStep("h1")
    \/ CollectStep("h1")

SpecStartup == InitStartup /\ [][NextStartup]_vars

(***************************************************************************)
(* A bulk update (task "h1") and a single-field write (task "h2") that the *)
(* server hands to its handler after the bulk update has read the holding  *)
(* registers.                                                              *)
(***************************************************************************)
RaceBulkRequests ==
    {WriteReq("POST", TRUE, << >>),
     WriteReq("POST", TRUE, ("FuncVentilation" :> Num(300)) @@ ("CfgTempSet" :> Num(2150)))}

RaceSingleRequests ==
    {WriteReq("POST", TRUE, "FuncBoostTm" :> Num(300)),
     WriteReq("POST", TRUE, "FuncNightTm" :> Num(100))}

\* The bulk update of task "h1" has returned from collectRanges and has not
\* finished its writes.
BulkInWindow == pc["h1"] \in {"wh_encode", "wh_write"}

ServeSingle(t) ==
    /\ BulkInWindow
    /\ pc[t] = "idle"
    /\ served[t] < MaxRequests
    /\ served' = [served EXCEPT ![t] = @ + 1]
    /\ \E req \in RaceSingleRequests : hf' = [hf EXCEPT ![t] = Locals(req)]
    /\ pc' = [pc EXCEPT ![t] = "wh_start"]
    /\ UNCHANGED <<devH, conn, faults, globals, cr, rdlog, wrlog>>

InitRace ==
    /\ devH = << >>
    /\ conn = "open"
    /\ faults = 0
    /\ runtimeMaxBlockSize = W16(flagMaxBlockSize)
    /\ args = << >>
    /\ pollInterval = 5
    /\ pc = [t \in Tasks |-> IF t = "h1" THEN "wh_start" ELSE "idle"]
    /\ cr = [t \in Tasks |-> IdleFrame]
    /\ rdlog = [t \in Tasks |-> {}]
    /\ wrlog = [t \in Tasks |-> << >>]
    /\ served = [t \in Tasks |-> 0]
    /\ inputRanges = FirstRanges(InputRangeTable, MaxSharedRanges)
    /\ holdingRanges = FirstRanges(HoldingRangeTable, MaxSharedRanges)
    /\ \E req \in RaceBulkRequests :
          hf = [t \in Tasks |-> IF t = "h1" THEN Locals(req) ELSE Locals(NoReq)]

NextRace ==
    \/ BulkStep("h1")
    \/ CollectStep("h1")
    \/ ServeSingle("h2")
    \/ SingleStep("h2")

SpecRace == InitRace /\ [][NextRace]_vars

(***************************************************************************)
(* A single-field write (task "h1") and, once it is answered, a read       *)
(* request (task "h2").                                                    *)
(***************************************************************************)
WriteReadNames ==
    {"FuncVentilation", "CfgTempSet", "CfgHumiSet", "ExtSensTemp1", "ExtSensTempCorr1"}

WriteReadValues == {-100, 0, 300, 430, 2157, 655350}

WriteReadRequests ==
    {WriteReq("POST", TRUE, n :> Num(h)) : n \in WriteReadNames, h \in WriteReadValues}

ServeReadAfterWrite(t) ==
    /\ pc["h1"] = "idle"
    /\ hf["h1"].resp # NoReply
    /\ ServeRead(t)

InitWriteRead ==
    /\ devH = << >>
    /\ conn = "open"
    /\ faults = 0
    /\ runtimeMaxBlockSize = W16(flagMaxBlockSize)
    /\ args = << >>
    /\ pollInterval = 5
    /\ pc = [t \in Tasks |-> IF t = "h1" THEN "wh_start" ELSE "idle"]
    /\ cr = [t \in Tasks |-> IdleFrame]
    /\ rdlog = [t \in Tasks |-> {}]
    /\ wrlog = [t \in Tasks |-> << >>]
    /\ served = [t \in Tasks |-> 0]
    /\ inputRanges = FirstRanges(InputRangeTable, MaxSharedRanges)
    /\ holdingRanges = FirstRanges(HoldingRangeTable, MaxRanges)
    /\ \E req \in WriteReadRequests :
          hf = [t \in Tasks |-> IF t = "h1" THEN Locals(req) ELSE Locals(NoReq)]

NextWriteRead ==
    \/ SingleStep("h1")
    \/ ServeReadAfterWrite("h2")
    \/ ReadStep("h2")
    \/ CollectStep("h2")

SpecWriteRead == InitWriteRead /\ [][NextWriteRead]_vars

(***************************************************************************)
(* The command line: flag.Parse() and the test of --host, then startup and *)
(* the poll loop.                                                          *)
(***************************************************************************)
\* The options the var block defines.
DefinedFlags ==
    {"host", "port", "slave-id", "max-block-size", "input-max-addr",
     "holding-max-addr", "http-port"}

\* Command lines: option -> value, durations in seconds.
CommandLines ==
    {<< >>,
     "host" :> 1,
     ("host" :> 1) @@ ("port" :> 502),
     ("host" :> 1) @@ ("http-port" :> 9090),
     ("host" :> 1) @@ ("slave-id" :> 2),
     ("host" :> 1) @@ ("poll-interval" :> 1),
     ("host" :> 1) @@ ("poll-interval" :> 5),
     ("host" :> 1) @@ ("poll-interval" :> 10)}

\* flag.Parse() ends the process on an option that is not defined; main
\* ends it when --host is missing.
ParseFlags(t) ==
    /\ pc[t] = "main_parse"
    /\ pc' = [pc EXCEPT ![t] =
                 IF ~(DOMAIN args \subseteq DefinedFlags) THEN "fatal_flags"
                 ELSE IF "host" \notin DOMAIN args THEN "fatal_host"
                 ELSE "main_validate_input"]
    /\ UNCHANGED <<devH, conn, faults, globals, served, cr, rdlog, hf, wrlog>>

InitOptions ==
    /\ devH = << >>
    /\ conn = "closed"
    /\ faults = 0
    /\ runtimeMaxBlockSize = 0
    /\ args \in CommandLines
    /\ pollInterval = 0
    /\ pc = [t \in Tasks |-> IF t = "poll" THEN "main_parse" ELSE "idle"]
    /\ cr = [t \in Tasks |-> IdleFrame]
    /\ rdlog = [t \in Tasks |-> {}]
    /\ wrlog = [t \in Tasks |-> << >>]
    /\ served = [t \in Tasks |-> 0]
    /\ hf = [t \in Tasks |-> Locals(NoReq)]
    /\ inputRanges = FirstRanges(InputRangeTable, MaxRanges)
    /\ holdingRanges = FirstRanges(HoldingRangeTable, MaxRanges)

NextOptions ==
    \/ ParseFlags("poll")
    \/ StartupStep("poll")
    \/ PollStep("poll")
    \/ CollectStep("poll")

SpecOptions == InitOptions /\ [][NextOptions]_vars

(***************************************************************************)
(* The codec on its own: task "c" decodes a raw holding map, applies the   *)
(* overrides of a payload, encodes the record and decodes the result; or   *)
(* the poll cycle and the read-input handler merge the same two raw maps.  *)
(***************************************************************************)
MaxAbsent == 2

\* The raw register values and the addresses the maps are drawn over.
RawSamples == {0, 1, 43, 72, 32767, 32768, 65535}

HoldingSampleAddrs ==
    {AddrHoldingFuncVentilation, AddrHoldingFuncAwayBegin,
     AddrHoldingFuncAwayBegin + 1, AddrHoldingFuncAwayEnd,
     AddrHoldingFuncAwayEnd + 1, AddrHoldingCfgTempSet, AddrHoldingCfgHumiSet,
     AddrHoldingUITempCorrBase, AddrExtSensBase + 2, AddrExtSensBase + 3}

InputSampleAddrs == {AddrFactSerialNum, AddrFutTempAmbient, AddrExtSensBase + 2}

\* The holding addresses of the maps that are merged.
MergeSampleAddrs ==
    {AddrExtSensBase + 2, AddrExtSensBase + 3,
     AddrExtSensBase + 10 * (ExtSensInstances - 1) + 2}

\* The maps over all but at most MaxAbsent of the addresses: one register
\* holds a sample value, the others what the device starts with.
RawMaps(kind, addrs) ==
    {[a \in S |-> IF a = hot THEN v ELSE InitReg(kind, a)] :
        S \in {T \in SUBSET addrs : Cardinality(addrs \ T) <= MaxAbsent},
        hot \in addrs, v \in RawSamples}
    \cup {<< >>}

CodecPayloads ==
    {<< >>,
     "CfgTempSet" :> Num(30),
     "CfgTempSet" :> Num(2157),
     "CfgHumiSet" :> Num(430)}

\* holding := DecodeHoldingMap(holdingMap)
CodecDecode(t) ==
    /\ pc[t] = "codec_decode"
    /\ hf' = [hf EXCEPT ![t].body = DecodeHoldingMap(cr[t].out)]
    /\ pc' = [pc EXCEPT ![t] = "codec_encode"]
    /\ UNCHANGED <<devH, conn, faults, globals, served, cr, rdlog, wrlog>>

\* The overrides and encoded := EncodeHoldingRegs(holding); body keeps the
\* record that was encoded.
CodecEncode(t) ==
    /\ pc[t] = "codec_encode"
    /\ \E conv \in FloatConvs :
          LET holding == ApplyOverrides(hf[t].body, hf[t].req.data, conv)
          IN  hf' = [hf EXCEPT ![t].body = holding,
                               ![t].encoded = EncodeHoldingRegs(holding, conv)]
    /\ pc' = [pc EXCEPT ![t] = "codec_back"]
    /\ UNCHANGED <<devH, conn, faults, globals, served, cr, rdlog, wrlog>>

\* DecodeHoldingMap of the encoded registers; resp takes the record.
CodecDecodeBack(t) ==
    /\ pc[t] = "codec_back"
    /\ hf' = [hf EXCEPT ![t].resp = DecodeHoldingMap(hf[t].encoded)]
    /\ pc' = [pc EXCEPT ![t] = "codec_done"]
    /\ UNCHANGED <<devH, conn, faults, globals, served, cr, rdlog, wrlog>>

\* The maps as the two calls of collectRanges left them.
WithMaps(t, holdingMap, inputMap) ==
    [frame |-> [IdleFrame EXCEPT !.out = holdingMap],
     locals |-> [Locals(IF t = "h1" THEN ReadReq("/api/read-input") ELSE NoReq)
                    EXCEPT !.inputMap = inputMap]]

InitCodec ==
    /\ devH = << >>
    /\ conn = "open"
    /\ faults = 0
    /\ runtimeMaxBlockSize = W16(flagMaxBlockSize)
    /\ args = << >>
    /\ pollInterval = 0
    /\ rdlog = [t \in Tasks |-> {}]
    /\ wrlog = [t \in Tasks |-> << >>]
    /\ served = [t \in Tasks |-> 0]
    /\ inputRanges = InputRangeTable
    /\ holdingRanges = HoldingRangeTable
    /\ \/ \E holdingMap \in RawMaps("holding", HoldingSampleAddrs) :
             \E data \in CodecPayloads :
                /\ pc = [t \in Tasks |-> IF t = "c" THEN "codec_decode" ELSE "idle"]
                /\ cr = [t \in Tasks |->
                            IF t = "c" THEN WithMaps(t, holdingMap, << >>).frame
                            ELSE IdleFrame]
                /\ hf = [t \in Tasks |->
                            IF t = "c" THEN Locals(WriteReq("POST", TRUE, data))
                            ELSE Locals(NoReq)]
       \/ \E holdingMap \in RawMaps("holding", MergeSampleAddrs) :
             \E inputMap \in RawMaps("input", InputSampleAddrs) :
                /\ pc = [t \in Tasks |->
                            IF t = "poll" THEN "poll_merge"
                            ELSE IF t = "h1" THEN "ri_reply" ELSE "idle"]
                /\ cr = [t \in Tasks |->
                            IF t \in {"poll", "h1"}
                            THEN WithMaps(t, holdingMap, inputMap).frame
                            ELSE IdleFrame]
                /\ hf = [t \in Tasks |->
                            IF t \in {"poll", "h1"}
                            THEN WithMaps(t, holdingMap, inputMap).locals
                            ELSE Locals(NoReq)]

NextCodec ==
    \/ CodecDecode("c")
    \/ CodecEncode("c")
    \/ CodecDecodeBack("c")
    \/ PollMerge("poll")
    \/ ReadInputReply("h1")

SpecCodec == InitCodec /\ [][NextCodec]_vars

(***************************************************************************)
(* Claims about one collectRanges call (task "c" of SpecCollect).          *)
(***************************************************************************)
CeilDiv(a, b) == (a + b - 1) \div b

\* The blocks of the call that were read successfully, at the first attempt
\* or at the retry, each named by its range and loop counter.
BlocksRead(t) ==
    {<<e.ri, e.i>> : e \in {x \in rdlog[t] : x.ok /\ x.op \in {"read", "retry"}}}

\* What those blocks hold when each is read successfully at its first attempt.
ExpectedOut(t) ==
    LET f == cr[t]
        addrs == UNION {BlockAddrs(BatchStart(f.ranges[b[1]], b[2]),
                                   BatchQuantity(f.ranges[b[1]], b[2], f.maxBlockSize)) :
                            b \in BlocksRead(t)}
    IN  [a \in addrs |-> Reg(f.regType, a)]

\* C1: the map collectRanges builds is, at every moment, exactly the map of
\* the blocks read so far as a successful first attempt stores them; a block
\* that succeeded at its retry contributes the same address->value entries
\* as one that succeeded at once, and no entry of another block changes.
C1_RetryEquivalent ==
    /\ DOMAIN cr["c"].out = DOMAIN ExpectedOut("c")
    /\ \A a \in DOMAIN cr["c"].out : cr["c"].out[a] = ExpectedOut("c")[a]

\* A finished call with two ranges in which a block was read at its retry
\* and another block was lost.
C1_Witness ==
    /\ pc["c"] = "done"
    /\ Len(cr["c"].ranges) = 2
    /\ \E e \in rdlog["c"] : e.op = "retry" /\ e.ok /\ e.qty < cr["c"].maxBlockSize
    /\ \E e \in rdlog["c"] : e.op = "open" /\ ~e.ok
    /\ cr["c"].out # << >>

\* C2 (as claimed): when the call has returned, no address of a block whose
\* retry or reopen failed is in the map, and every address of every supplied
\* range was asked for by at least one first attempt.
C2_SkipAndContinue ==
    pc["c"] = "done" =>
        /\ \A e \in rdlog["c"] :
              (e.op \in {"retry", "open"} /\ ~e.ok) =>
                  BlockAddrs(e.start, e.qty) \cap DOMAIN cr["c"].out = {}
        /\ \A ri \in 1 .. Len(cr["c"].ranges) :
              \A a \in cr["c"].ranges[ri][1] .. cr["c"].ranges[ri][2] :
                  \E e \in rdlog["c"] :
                      e.op = "read" /\ e.ri = ri /\ a \in BlockAddrs(e.start, e.qty)

\* C3 (as claimed): every key of the map lies inside [start, end] of a
\* supplied range.
C3_KeysInsideRanges ==
    \A k \in DOMAIN cr["c"].out :
        \E ri \in 1 .. Len(cr["c"].ranges) :
            cr["c"].ranges[ri][1] <= k /\ k <= cr["c"].ranges[ri][2]

\* C4 (as claimed): with all reads succeeding, a range of length L is read by
\* exactly ceil(L/B) requests, the k-th starting at start + k*B, each of B
\* registers but the last, which has what is left.
C4_BlockSplitting ==
    (pc["c"] = "done" /\ \A e \in rdlog["c"] : e.ok) =>
        \A ri \in 1 .. Len(cr["c"].ranges) :
            LET r == cr["c"].ranges[ri]
                B == cr["c"].maxBlockSize
                L == r[2] - r[1] + 1
                n == CeilDiv(L, B)
                reqs == {e \in rdlog["c"] : e.ri = ri}
            IN  /\ Cardinality(reqs) = n
                /\ \A k \in 0 .. (n - 1) :
                      \E e \in reqs :
                          /\ e.i = k * B
                          /\ e.start = r[1] + k * B
                          /\ e.qty = IF k < n - 1 THEN B ELSE L - (n - 1) * B

(***************************************************************************)
(* Claims about the tasks that share the client (Spec).                    *)
(***************************************************************************)
\* Task t has closed the connection for its recovery and not yet reopened it.
InRecovery(t) == pc[t] \in {"cr_sleep", "cr_open"}

\* This step is a ReadRegisters or a WriteRegister call of task u.
ClientOp(u) ==
    \/ /\ pc[u] \in {"cr_read", "cr_retry"}
       /\ <<pc[u], cr[u], rdlog[u]>>' # <<pc[u], cr[u], rdlog[u]>>
    \/ Len(wrlog'[u]) > Len(wrlog[u])

\* C5 (as claimed): the uses of the shared connection are serialized; no
\* read or write of one task happens between the close and the reopen of
\* another task's recovery.
C5_RecoveryExclusive ==
    [][\A t \in Tasks : \A u \in Tasks \ {t} : InRecovery(t) => ~ClientOp(u)]_vars

(***************************************************************************)
(* Claims about one write request (task "h1" of SpecWrite).                *)
(***************************************************************************)
\* The request is a one-key payload with a number: it goes to WriteSingleRegister.
ToWriteSingle ==
    /\ hf["h1"].req.method = "POST"
    /\ hf["h1"].req.json
    /\ Cardinality(DOMAIN hf["h1"].req.data) = 1
    /\ SingleVal("h1").num

Answered == pc["h1"] = "idle" /\ hf["h1"].resp # NoReply

\* No ReadRegisters and no WriteRegister was issued, and no register changed.
DeviceUntouched ==
    /\ wrlog["h1"] = << >>
    /\ rdlog["h1"] = {}
    /\ cr["h1"] = IdleFrame
    /\ devH = << >>

\* C6: a single-field write whose name is no key of WriteableFields, or whose
\* entry has a RegCount other than 1, never touches the device, and is
\* answered with the unknown-or-not-writable error (the register-count
\* error for an entry of another RegCount).
C6_UnknownFieldRefused ==
    (ToWriteSingle /\ (SingleKey("h1") \notin WriteableNames
                        \/ WriteableFields(SingleKey("h1")).RegCount # 1)) =>
        /\ DeviceUntouched
        /\ Answered =>
              /\ ~hf["h1"].resp.success
              /\ hf["h1"].resp.error =
                    IF SingleKey("h1") \notin WriteableNames
                    THEN "unknown or not-writable field"
                    ELSE "single-register write not supported"

\* An answered write of a name that is a holding field but not writable.
C6_Witness ==
    /\ ToWriteSingle
    /\ Answered
    /\ SingleKey("h1") = "AccessCode"
    /\ hf["h1"].resp.error = "unknown or not-writable field"

\* round(value / scale): the nearest integer, halves away from zero.
RoundedScaled(name, value) ==
    TruncDiv(2 * value.h + Sign(value.h) * WriteableFields(name).Scale,
             2 * WriteableFields(name).Scale)

\* The 16-bit two's-complement pattern of that integer.
EncodedRounded(name, value) == W16(RoundedScaled(name, value))

\* C7 (as claimed): a single-field write of a writable field is answered
\* with the out-of-range error, and no register is written, exactly when
\* scaled = round(value / scale) lies outside -32768..65535.
C7_OutOfRangeExactly ==
    (ToWriteSingle /\ Answered /\ SingleKey("h1") \in WriteableNames) =>
        LET scaled == RoundedScaled(SingleKey("h1"), SingleVal("h1").f)
        IN  /\ (hf["h1"].resp.error = "value out of range")
                   <=> (scaled < -32768 \/ scaled > 65535)
            /\ (hf["h1"].resp.error = "value out of range") => wrlog["h1"] = << >>

\* C8 (as claimed): the value a single-field write puts into the register is
\* the 16-bit pattern of round(value / scale).
C8_RoundedEncoding ==
    (ToWriteSingle /\ Answered /\ hf["h1"].resp.success) =>
        wrlog["h1"][1].val = EncodedRounded(SingleKey("h1"), SingleVal("h1").f)

\* C9: a single-field write answered with success has issued exactly one
\* WriteRegister call, at the address of the field and returning ok, and no
\* read; no register but the one at that address has changed.
C9_OneWriteNoRead ==
    (ToWriteSingle /\ Answered /\ hf["h1"].resp.success) =>
        /\ Len(wrlog["h1"]) = 1
        /\ wrlog["h1"][1].ok
        /\ wrlog["h1"][1].addr =
              (CHOOSE row \in WriteableFieldRows : row.name = SingleKey("h1")).Addr
        /\ rdlog["h1"] = {}
        /\ cr["h1"] = IdleFrame
        /\ DOMAIN devH = {wrlog["h1"][1].addr}
        /\ devH[wrlog["h1"][1].addr] = wrlog["h1"][1].val

\* A successful write of the last external sensor correction.
C9_Witness ==
    /\ ToWriteSingle
    /\ Answered
    /\ hf["h1"].resp.success
    /\ SingleKey("h1") = "ExtSensTempCorr8"
    /\ devH # << >>

\* C10: a WriteRegister call that failed is the last call of its request,
\* and the request is answered with success false and the error that names
\* the address of that call; an answer of success true means that every
\* call of the request returned ok.
C10_NoWriteFailureDropped ==
    /\ \A i \in 1 .. Len(wrlog["h1"]) :
          ~wrlog["h1"][i].ok =>
              /\ i = Len(wrlog["h1"])
              /\ Answered
              /\ ~hf["h1"].resp.success
              /\ hf["h1"].resp.error = "write register"
              /\ hf["h1"].resp.addr = wrlog["h1"][i].addr
    /\ (Answered /\ hf["h1"].resp.success) =>
          \A i \in 1 .. Len(wrlog["h1"]) : wrlog["h1"][i].ok

\* A bulk update whose third write failed, answered with the error that
\* names the address of that write.
C10_Witness ==
    /\ Answered
    /\ ~hf["h1"].resp.success
    /\ Len(wrlog["h1"]) = 3
    /\ ~wrlog["h1"][3].ok
    /\ hf["h1"].resp.addr = wrlog["h1"][3].addr

(***************************************************************************)
(* Claims about one bulk update (task "h1" of SpecWrite).                  *)
(***************************************************************************)
\* The request is a valid payload of no key or of several keys.
IsBulk ==
    /\ hf["h1"].req.method = "POST"
    /\ hf["h1"].req.json
    /\ Cardinality(DOMAIN hf["h1"].req.data) # 1

\* The addresses the write loop has not reached, the failed one included.
NotWritten == {hf["h1"].todo[i] : i \in 1 .. Len(hf["h1"].todo)}

\* C11: in a bulk update a failed WriteRegister call is the last call of
\* the update and its error is the one answered; the registers written
\* before it hold their new values and the registers of the addresses not
\* yet written hold their old values.
C11_StopAtFirstFailure ==
    IsBulk =>
        /\ \A i \in 1 .. Len(wrlog["h1"]) :
              IF wrlog["h1"][i].ok
              THEN devH[wrlog["h1"][i].addr] = wrlog["h1"][i].val
              ELSE /\ i = Len(wrlog["h1"])
                   /\ Answered
                   /\ hf["h1"].resp = WriteError(wrlog["h1"][i].addr)
        /\ \A a \in NotWritten : a \notin DOMAIN devH
        /\ DOMAIN devH = {wrlog["h1"][i].addr : i \in {j \in 1 .. Len(wrlog["h1"]) : wrlog["h1"][j].ok}}

\* A bulk update whose second write failed with more addresses to go: the
\* first register holds its new value.
C11_Witness ==
    /\ IsBulk
    /\ Answered
    /\ Len(wrlog["h1"]) = 2
    /\ wrlog["h1"][1].ok
    /\ ~wrlog["h1"][2].ok
    /\ devH[wrlog["h1"][1].addr] = wrlog["h1"][1].val
    /\ Len(hf["h1"].todo) > 1

\* The addresses of the writable-field table.
WriteableAddrs == {row.Addr : row \in WriteableFieldRows}

\* The addresses of a list of ranges.
RangeAddrs(ranges) ==
    UNION {ranges[i][1] .. ranges[i][2] : i \in 1 .. Len(ranges)}

\* The addresses whose reading is as in the program: those of the ranges of
\* this run and those that no range of the table holds.
ReadAsShipped ==
    {a \in 0 .. U16 - 1 :
        a \in RangeAddrs(holdingRanges) \/ a \notin RangeAddrs(HoldingRangeTable)}

\* The numeric writable fields of the payload that live at address a.
NamedAt(a) ==
    {k \in DOMAIN hf["h1"].req.data \cap WriteableNames :
        SpecAddr(k) = a /\ hf["h1"].req.data[k].num}

\* C12 (as claimed): the registers a bulk update is about to write are
\* exactly the addresses of the writable-field table; the value for the
\* address of a field named in the payload is the encoding of the supplied
\* value and the value for every other address is the register's value on
\* the device.
C12_ExactlyWritableSubset ==
    (IsBulk /\ pc["h1"] = "wh_write") =>
        /\ DOMAIN hf["h1"].encoded = WriteableAddrs
        /\ \A a \in DOMAIN hf["h1"].encoded \cap ReadAsShipped :
              IF NamedAt(a) # {}
              THEN \E k \in NamedAt(a) :
                      hf["h1"].encoded[a] = EncodedRounded(k, hf["h1"].req.data[k].f)
              ELSE hf["h1"].encoded[a] = Reg("holding", a)

\* Some field the bulk path applies is given a number whose encoded form
\* fits no 16-bit register, signed or unsigned.
BulkUnfit ==
    \E k \in DOMAIN hf["h1"].req.data \cap (OverrideU16Names \cup OverrideFloatNames) :
        /\ hf["h1"].req.data[k].num
        /\ \/ RoundedScaled(k, hf["h1"].req.data[k].f) < -32768
           \/ RoundedScaled(k, hf["h1"].req.data[k].f) > 65535

\* C13 (as claimed): a bulk update given a field value whose encoded form
\* does not fit 16 bits issues no register write and is answered with the
\* out-of-range error.
C13_BulkOutOfRangeRejected ==
    (IsBulk /\ BulkUnfit /\ ~Panics(hf["h1"].req.data)) =>
        /\ wrlog["h1"] = << >>
        /\ Answered => hf["h1"].resp.error = "value out of range"

\* The payload without the keys that are no field name.
StripUnknown(data) == [k \in DOMAIN data \cap WriteableNames |-> data[k]]

\* C14 (as claimed): the registers a bulk update sets out to write are those
\* the same payload without its unknown keys would write, and the unknown
\* keys cause no error answer: a bulk update whose recognised values are
\* numbers fails only with the error of a failed WriteRegister.
C14_UnknownKeysNoEffect ==
    /\ (IsBulk /\ pc["h1"] = "wh_write") =>
          \E conv \in FloatConvs :
              hf["h1"].encoded =
                  WritePlan(StripUnknown(hf["h1"].req.data), cr["h1"].out, conv)
    /\ (IsBulk /\ Answered /\ ~Panics(StripUnknown(hf["h1"].req.data))) =>
          \/ hf["h1"].resp.success
          \/ /\ wrlog["h1"] # << >>
             /\ hf["h1"].resp = WriteError(wrlog["h1"][Len(wrlog["h1"])].addr)

(***************************************************************************)
(* Claims about the codec (SpecCodec).                                     *)
(***************************************************************************)
\* Two values of a field of scale 0.1 differ by at most scale / 2.
Near(x, y) == 2 * Abs(x.h - y.h) <= 10

ScaledArrays == {"UITempCorr", "ExtSensTempCorr", "AlfaTempCorr", "AlfaNTCTempCorr"}

UnscaledFields ==
    DOMAIN DecodeHoldingMap(<< >>) \ ({"CfgTempSet", "CfgHumiSet"} \cup ScaledArrays)

\* C15 (as claimed): decoding the encoded record gives back every scaled
\* field within scale / 2 and every unscaled field exactly, and encoding
\* the decoded map gives back every raw register of the map.
C15_RoundTrip ==
    pc["c"] = "codec_done" =>
        /\ Near(hf["c"].resp.CfgTempSet, hf["c"].body.CfgTempSet)
        /\ Near(hf["c"].resp.CfgHumiSet, hf["c"].body.CfgHumiSet)
        /\ \A k \in ScaledArrays : \A i \in DOMAIN hf["c"].body[k] :
              Near(hf["c"].resp[k][i], hf["c"].body[k][i])
        /\ \A k \in UnscaledFields : hf["c"].resp[k] = hf["c"].body[k]
        /\ hf["c"].req.data = << >> =>
              \A a \in DOMAIN cr["c"].out \cap DOMAIN hf["c"].encoded :
                  hf["c"].encoded[a] = cr["c"].out[a]

\* The addresses DecodeHoldingMap and DecodeInputMap look up.
HoldingDecodeAddrs == DOMAIN EncodeHoldingRegs(DecodeHoldingMap(<< >>), "wrap")

InputDecodeAddrs ==
    {AddrFactDeviceID, AddrFactSerialNum, AddrFactSerialNum + 1, AddrFutTempAmbient}
    \cup {AddrExtSensBase + 10 * i + o : i \in 0 .. ExtSensInstances - 1, o \in 0 .. 5}

\* The map with 0 at every address of addrs that it does not hold.
Completed(m, addrs) ==
    [a \in addrs \cup DOMAIN m |-> IF a \in DOMAIN m THEN m[a] ELSE 0]

\* The register of a map, 0 when absent.
RawOrZero(m, a) == IF a \in DOMAIN m THEN m[a] ELSE 0

\* C16: DecodeHoldingMap and DecodeInputMap give a record for every raw map,
\* the empty and the partial ones included: the record is the one of the
\* map completed with zeros, so an absent register decodes as 0, an absent
\* word of a 2-register field counts as 0, and a present register decodes
\* as it does in the complete map.
C16_DecodeTotal ==
    /\ pc["c"] = "codec_encode" =>
          /\ hf["c"].body = DecodeHoldingMap(Completed(cr["c"].out, HoldingDecodeAddrs))
          /\ hf["c"].body.FuncVentilation =
                 RawOrZero(cr["c"].out, AddrHoldingFuncVentilation)
          /\ hf["c"].body.FuncAwayBegin =
                 <<RawOrZero(cr["c"].out, AddrHoldingFuncAwayBegin),
                   RawOrZero(cr["c"].out, AddrHoldingFuncAwayBegin + 1)>>
          /\ AddrHoldingCfgTempSet \notin DOMAIN cr["c"].out =>
                 hf["c"].body.CfgTempSet.h = 0
    /\ \A t \in {"poll", "h1"} : (pc[t] \in {"poll_wait", "idle"} /\ hf[t].body # << >>) =>
          LET full == DecodeInputMap(Completed(hf[t].inputMap, InputDecodeAddrs))
          IN  /\ hf[t].body.FactDeviceID = full.FactDeviceID
              /\ hf[t].body.FactSerialNum = full.FactSerialNum
              /\ hf[t].body.TempAmbient = full.TempAmbient
              /\ hf[t].body.FactSerialNum =
                     <<RawOrZero(hf[t].inputMap, AddrFactSerialNum),
                       RawOrZero(hf[t].inputMap, AddrFactSerialNum + 1)>>
              /\ AddrFutTempAmbient \notin DOMAIN hf[t].inputMap =>
                     hf[t].body.TempAmbient.h = 0

\* A partial holding map was decoded: the high word of FuncAwayBegin is
\* there, its low word and the register of CfgTempSet are not.
C16_Witness ==
    /\ pc["c"] = "codec_encode"
    /\ AddrHoldingFuncAwayBegin \in DOMAIN cr["c"].out
    /\ AddrHoldingFuncAwayBegin + 1 \notin DOMAIN cr["c"].out
    /\ AddrHoldingCfgTempSet \notin DOMAIN cr["c"].out
    /\ hf["c"].body.FuncAwayBegin = <<cr["c"].out[AddrHoldingFuncAwayBegin], 0>>
    /\ hf["c"].body.CfgTempSet.h = 0

\* The two's-complement reading of a 16-bit raw value.
AsSigned(r) == IF r < 32768 THEN r ELSE r - U16

\* C17: a signed 1-register field decodes to s * scale, s the raw value
\* read as two's complement, and an unsigned one to r * scale: with scale
\* 0.1 raw 0xFFFF gives -0.1 and raw 0x0001 gives 0.1 (values in hundredths).
C17_SignedDecode ==
    /\ pc["c"] = "codec_encode" =>
          LET t == RawOrZero(cr["c"].out, AddrHoldingCfgTempSet)
              h == RawOrZero(cr["c"].out, AddrHoldingCfgHumiSet)
              u == RawOrZero(cr["c"].out, AddrHoldingUITempCorrBase)
          IN  /\ hf["c"].body.CfgTempSet.h = 10 * AsSigned(t)
              /\ hf["c"].body.UITempCorr[1].h = 10 * AsSigned(u)
              /\ hf["c"].body.CfgHumiSet.h = 10 * h
              /\ t = 65535 => hf["c"].body.CfgTempSet.h = -10
              /\ t = 1 => hf["c"].body.CfgTempSet.h = 10
    /\ pc["h1"] = "idle" /\ hf["h1"].body # << >> =>
          /\ hf["h1"].body.TempAmbient.h =
                 10 * AsSigned(RawOrZero(hf["h1"].inputMap, AddrFutTempAmbient))
          /\ hf["h1"].body.ExtSensRH[1].h =
                 100 * RawOrZero(cr["h1"].out, AddrExtSensBase + 3)

\* Raw 0xFFFF in the register of CfgTempSet was decoded as -0.1.
C17_Witness ==
    /\ pc["c"] = "codec_encode"
    /\ AddrHoldingCfgTempSet \in DOMAIN cr["c"].out
    /\ cr["c"].out[AddrHoldingCfgTempSet] = 65535
    /\ hf["c"].body.CfgTempSet = [h |-> -10, src |-> "mul"]

\* The external-sensor fields of a record are the decode of the holding
\* registers at 300 + 10 * i + offset.
ExtSensFromHolding(body, holdingMap) ==
    \A i \in 1 .. ExtSensInstances :
        LET base == AddrExtSensBase + 10 * (i - 1)
        IN  /\ body.ExtSensPresent[i] = RawOrZero(holdingMap, base)
            /\ body.ExtSensInvalidate[i] = RawOrZero(holdingMap, base + 1)
            /\ body.ExtSensTemp[i].h = 10 * AsSigned(RawOrZero(holdingMap, base + 2))
            /\ body.ExtSensRH[i].h = 100 * RawOrZero(holdingMap, base + 3)
            /\ body.ExtSensCo2[i] = RawOrZero(holdingMap, base + 4)
            /\ body.ExtSensTFloor[i].h = 10 * AsSigned(RawOrZero(holdingMap, base + 5))

\* The poll cycle and the read-input handler have both merged their maps.
BothMerged ==
    /\ pc["poll"] = "poll_wait" /\ hf["poll"].body # << >>
    /\ pc["h1"] = "idle" /\ hf["h1"].body # << >>

InCollect(t) ==
    pc[t] \in {"cr_call", "cr_read", "cr_close", "cr_sleep", "cr_open", "cr_retry"}

\* C19 (as claimed): in every interleaving of startup, the poll loop and
\* the HTTP handlers, every call of collectRanges has received a
\* maxBlockSize in 1..65535.
C19_BlockSizePositive ==
    \A t \in Tasks : InCollect(t) => cr[t].maxBlockSize \in 1 .. U16 - 1

\* Every range of the list has exactly two bounds, start <= end and
\* end <= maxAddr.
WithinBounds(ranges, maxAddr) ==
    \A i \in 1 .. Len(ranges) :
        /\ Len(ranges[i]) = 2
        /\ ranges[i][1] <= ranges[i][2]
        /\ ranges[i][2] <= maxAddr

BothWithinBounds ==
    /\ WithinBounds(inputRanges, flagInputMaxAddr)
    /\ WithinBounds(holdingRanges, flagHoldingMaxAddr)

\* Two ranges of the list share an address.
Overlapping(ranges) ==
    \E i, j \in 1 .. Len(ranges) :
        /\ i < j
        /\ ranges[i][1] <= ranges[j][2]
        /\ ranges[j][1] <= ranges[i][2]

\* C20: startup is aborted by validateRanges exactly when a range of one of
\* the two lists has not exactly two bounds, or start > end, or end > the
\* maximum address of its kind; overlapping ranges pass; and the connection
\* is opened, and a register read, only after both lists passed.
C20_ValidatedBeforeOpen ==
    /\ pc["poll"] = "fatal_ranges" => ~BothWithinBounds
    /\ pc["poll"] = "main_validate_holding" => WithinBounds(inputRanges, flagInputMaxAddr)
    /\ pc["poll"] \notin {"main_validate_input", "main_validate_holding", "fatal_ranges"}
           => BothWithinBounds
    /\ (conn # "closed" \/ \E t \in Tasks : InCollect(t) \/ rdlog[t] # {})
           => BothWithinBounds

\* The poll loop has read registers of an input list with overlapping
\* ranges.
C20_Witness ==
    /\ pc["poll"] = "poll_holding"
    /\ BothWithinBounds
    /\ Overlapping(inputRanges)
    /\ rdlog["poll"] # {}
    /\ conn = "open"

(***************************************************************************)
(* Claims about the options (SpecOptions).                                 *)
(***************************************************************************)
\* The interval asked for: the value of --poll-interval, 5 seconds without.
AskedInterval ==
    IF "poll-interval" \in DOMAIN args THEN args["poll-interval"] ELSE 5

\* C21 (as claimed): a command line with --poll-interval is accepted, and
\* the poll ticker runs with the period the option gives, with 5 seconds
\* when the option is left out.
C21_PollIntervalOption ==
    /\ pc["poll"] # "fatal_flags"
    /\ pollInterval # 0 => pollInterval = AskedInterval

(***************************************************************************)
(* Claims about the reads of one collectRanges call (SpecCollect).         *)
(***************************************************************************)
\* The log entries of the block the frame of task "c" stands at.
BlockEntries(op) ==
    {e \in rdlog["c"] : e.op = op /\ e.ri = cr["c"].ri /\ e.i = cr["c"].i}

\* C22 (as claimed): the call stands at the first attempt only of a block
\* that was not read before in this call, and at a retry only once per block
\* and with the start address, register count and register kind of the
\* failed first attempt: no block is read more than twice.
C22_AtMostTwicePerBlock ==
    /\ pc["c"] = "cr_read" => BlockEntries("read") = {}
    /\ pc["c"] = "cr_retry" =>
          /\ BlockEntries("retry") = {}
          /\ \E e \in BlockEntries("read") :
                /\ ~e.ok
                /\ RetryRequest(cr["c"]) =
                       [start |-> e.start, qty |-> e.qty, kind |-> e.kind]

\* C23 (as claimed): every read of the call, first attempt or retry, is
\* issued on the open connection, and the connection is open when the
\* call returns.
C23_RecoveryLeavesOpen ==
    [][/\ pc["c"] \in {"cr_read", "cr_retry"} => conn = "open"
       /\ pc'["c"] = "done" => conn' = "open"]_vars

\* C24 (as claimed): whenever the call stands at a first attempt, the block
\* it requests has between 1 and maxBlockSize registers and ends at or
\* before the end of its range, and its loop counter lies beyond that of
\* every block of the range requested before, so that the loop of each
\* range ends after finitely many reads.
C24_TerminatesInsideRange ==
    pc["c"] = "cr_read" =>
        LET f == cr["c"]
            q == FirstRequest(f)
        IN  /\ 1 <= q.qty
            /\ q.qty <= f.maxBlockSize
            /\ q.start + q.qty - 1 <= f.ranges[f.ri][2]
            /\ \A e \in rdlog["c"] : (e.op = "read" /\ e.ri = f.ri) => e.i < f.i

(***************************************************************************)
(* Claims about a bulk update next to a single-field write (SpecRace).     *)
(***************************************************************************)
\* Both requests have been answered, the single-field write with success.
BothAnswered ==
    /\ pc["h1"] = "idle" /\ hf["h1"].resp # NoReply
    /\ pc["h2"] = "idle" /\ hf["h2"].resp # NoReply
    /\ hf["h2"].resp.success

\* C25 (as claimed): a single-field write of f that succeeds while a bulk
\* update not naming f is past its holding read is not lost: once both
\* requests have finished, the register of f holds the encoding of v.
C25_SingleWriteNotLost ==
    BothAnswered =>
        Reg("holding", SpecAddr(SingleKey("h2"))) =
            Encoded(SingleKey("h2"), SingleVal("h2").f)

\* The addresses of the fields the payload names.
PayloadAddrs ==
    {SpecAddr(k) : k \in DOMAIN hf["h1"].req.data \cap WriteableNames}

\* C26 (as claimed): a bulk update with no concurrent task changes only
\* the registers of the fields its payload names: every other holding
\* register holds the value it had before the update, also when it is
\* absent from the raw map just read.
C26_BulkFrame ==
    IsBulk =>
        \A a \in (DOMAIN devH \cap ReadAsShipped) \ PayloadAddrs :
            devH[a] = InitReg("holding", a)

\* C27 (as claimed): a write request whose payload names no recognised
\* writable field (the empty object, or two or more unknown keys) issues no
\* WriteRegister call and leaves every device register unchanged.
C27_NoRecognisedFieldNoWrite ==
    (/\ hf["h1"].req.method = "POST"
     /\ hf["h1"].req.json
     /\ DOMAIN hf["h1"].req.data \cap WriteableNames = {}) =>
        /\ wrlog["h1"] = << >>
        /\ \A a \in DOMAIN devH : devH[a] = InitReg("holding", a)

(***************************************************************************)
(* Claims about a write followed by a read (SpecWriteRead).                *)
(***************************************************************************)
\* The value, in hundredths, that the answer of the read request reports
\* for the field: read-holding for the holding fields, read-input for the
\* fields of the external sensors.
Reported(name) ==
    LET body == hf["h2"].body
    IN  CASE name = "FuncVentilation" -> 100 * body.FuncVentilation
          [] name = "CfgTempSet" -> body.CfgTempSet.h
          [] name = "CfgHumiSet" -> body.CfgHumiSet.h
          [] name = "ExtSensTempCorr1" -> body.ExtSensTempCorr[1].h
          [] name = "ExtSensTemp1" -> body.ExtSensTemp[1].h

\* The path of the read API that reports the field.
ReadPath(name) ==
    IF name = "ExtSensTemp1" THEN "/api/read-input" ELSE "/api/read-holding"

\* The single-field write succeeded and the read that followed it, through
\* the path that reports the field, was answered with every block read at
\* the first attempt.
WrittenThenRead ==
    /\ hf["h1"].resp.success
    /\ pc["h2"] = "idle"
    /\ hf["h2"].resp.success
    /\ hf["h2"].req.path = ReadPath(SingleKey("h1"))
    /\ \A e \in rdlog["h2"] : e.ok

\* C28 (as claimed): for every writable field and every value v that
\* WriteSingleRegister accepts and writes, a fully successful read that
\* follows with no write in between reports for the field a value within
\* one encoding unit (the field's scale) of v.
C28_WriteThenRead ==
    WrittenThenRead =>
        Abs(Reported(SingleKey("h1")) - SingleVal("h1").f.h)
            <= WriteableFields(SingleKey("h1")).Scale

\* The number a pair of 16-bit words stands for, high word first.
U32Num(v) == v[1] * U16 + v[2]

\* The record that was encoded holds the two words of the 2-register field
\* at addr in the map that was decoded, the high word at addr.
WordsAt(field, addr) ==
    /\ field = <<RawOrZero(cr["c"].out, addr), RawOrZero(cr["c"].out, addr + 1)>>
    /\ hf["c"].encoded[addr] = field[1]
    /\ hf["c"].encoded[addr + 1] = field[2]
    /\ field[1] < 32768 =>
          /\ hf["c"].encoded[addr] = U32Num(field) \div U16
          /\ hf["c"].encoded[addr + 1] = U32Num(field) % U16

SensorAbsent(holdingMap, i) ==
    \A o \in 0 .. 5 : AddrExtSensBase + 10 * (i - 1) + o \notin DOMAIN holdingMap

\* The aliased fields of sensor i are all 0 in the record.
SensorZero(body, i) ==
    /\ body.ExtSensPresent[i] = 0
    /\ body.ExtSensInvalidate[i] = 0
    /\ body.ExtSensTemp[i].h = 0
    /\ body.ExtSensRH[i].h = 0
    /\ body.ExtSensCo2[i] = 0
    /\ body.ExtSensTFloor[i].h = 0

====
